---------------------------- MODULE Spec2Model ----------------------------
(***************************************************************************)
(* A model of pudl/analysis.py: the derived-statistics functions of PUDL  *)
(* over FERC Form 1 and EIA 923 record sets.                               *)
(*                                                                         *)
(* The module is a library of functions called one at a time by an        *)
(* analyst.  The state is what a call can read or change:                  *)
(*   fn   the function under call                                          *)
(*   arg  the caller's argument objects (data frames are mutable and some *)
(*        functions write helper columns into them)                        *)
(*   arg0 the argument objects as the caller built them, before any call  *)
(*   db   the database tables the call reads                               *)
(*   ret  the values returned (or the errors raised) by the calls made so *)
(*        far, oldest first                                                *)
(* A data frame is a sequence of rows; a row is a function from column    *)
(* names to values.  Floating point values are modelled exactly, as       *)
(* integers or as fractions of integers; NaN and the infinities are       *)
(* explicit values.                                                        *)
(***************************************************************************)
EXTENDS Integers, Sequences, FiniteSets, TLC

VARIABLES fn, arg, arg0, db, ret

vars == <<fn, arg, arg0, db, ret>>

\* How many times the analyst calls the function with the same objects.
MaxCalls == 2

-----------------------------------------------------------------------------
(* Helpers on sequences and rows *)

RECURSIVE SumSeq(_)
SumSeq(s) == IF s = <<>> THEN 0 ELSE Head(s) + SumSeq(Tail(s))

\* The values of f over the sequence s
MapSeq(s, f(_)) == [i \in 1..Len(s) |-> f(s[i])]

\* pandas: row[cols].sum(), the sum of the listed columns of one row
SumCols(row, cols) == SumSeq([i \in 1..Len(cols) |-> row[cols[i]]])

\* The set of the elements of a sequence
Range(s) == {s[i] : i \in 1..Len(s)}

\* What a call hands back: a value, or the exception it raised
Ok(v) == [ok |-> TRUE, val |-> v, err |-> ""]
Raise(e) == [ok |-> FALSE, val |-> <<>>, err |-> e]

\* The rows of a set, as a data frame.  pandas orders the rows of a group-by
\* or a pivot by key; no operation modelled here reads that order.
RECURSIVE SetToSeq(_)
SetToSeq(S) ==
    IF S = {} THEN <<>>
    ELSE LET x == CHOOSE y \in S : TRUE IN <<x>> \o SetToSeq(S \ {x})

\* A row cut down to the columns cols
Restrict(row, cols) == [c \in cols |-> row[c]]

\* Calendar dates: the first day of a month
Date(y, m) == [year |-> y, month |-> m]

\* df.groupby(keyCols)[valCols].sum().reset_index(): one row per distinct
\* combination of the key columns present in df, holding the key and, for
\* each value column, the sum over the rows of that combination
GroupBySum(df, keyCols, valCols) ==
    SetToSeq({k @@ [v \in valCols |->
                     SumSeq(MapSeq(SelectSeq(df,
                                     LAMBDA r : Restrict(r, keyCols) = k),
                                   LAMBDA r : r[v]))] :
              k \in {Restrict(r, keyCols) : r \in Range(df)}})

RECURSIVE Flatten(_)
Flatten(ss) == IF ss = <<>> THEN <<>> ELSE Head(ss) \o Flatten(Tail(ss))

\* pd.merge(left, right, how='inner', on=on) for frames that share no column
\* but those of on: one row per pair of a left row and a right row that agree
\* on every column of on, in the order of the left rows
MergeRow(l, r, on) ==
    LET both == (DOMAIN l \cap DOMAIN r) \ on
    IN  Restrict(l, DOMAIN l \ both)
        @@ Restrict(r, DOMAIN r \ (both \cup on))
        @@ [c \in {b \o "_x" : b \in both} |-> l[CHOOSE b \in both : b \o "_x" = c]]
        @@ [c \in {b \o "_y" : b \in both} |-> r[CHOOSE b \in both : b \o "_y" = c]]

MergeInner(left, right, on) ==
    Flatten([i \in 1..Len(left) |->
               MapSeq(SelectSeq(right,
                                LAMBDA r : Restrict(r, on) = Restrict(left[i], on)),
                      LAMBDA r : MergeRow(left[i], r, on))])

\* pd.Grouper(freq='A') followed by .dt.year / DatetimeIndex(...).year: the
\* rows with the calendar year of dateCol in the column yearCol
WithYear(df, dateCol, yearCol) ==
    [i \in 1..Len(df) |-> (yearCol :> df[i][dateCol].year) @@ df[i]]

-----------------------------------------------------------------------------
(* Floating point values, kept exact: a fraction num/den with den > 0, an   *)
(* infinity (num is its sign) or NaN.                                       *)

Frac(n, d) == [kind |-> "num", num |-> n, den |-> d]
NaN == [kind |-> "nan", num |-> 0, den |-> 1]
Inf(sign) == [kind |-> "inf", num |-> sign, den |-> 1]

IsNaN(x) == x.kind = "nan"
IsNum(x) == x.kind = "num"

\* a + b for two fractions
FAdd(a, b) == Frac(a.num * b.den + b.num * a.den, a.den * b.den)

RECURSIVE FSum(_)
FSum(s) == IF s = <<>> THEN Frac(0, 1) ELSE FAdd(Head(s), FSum(Tail(s)))

\* a / b for two fractions, as IEEE division: x/0 is an infinity, 0/0 is NaN
FDiv(a, b) ==
    IF b.num = 0
    THEN IF a.num = 0 THEN NaN ELSE Inf(IF a.num > 0 THEN 1 ELSE -1)
    ELSE IF b.num > 0 THEN Frac(a.num * b.den, a.den * b.num)
         ELSE Frac(-(a.num * b.den), a.den * (-b.num))

\* a >= b and a < b: both False when either is NaN
FGe(a, b) ==
    CASE a.kind = "nan" \/ b.kind = "nan" -> FALSE
      [] a.kind = "inf" -> a.num > 0 \/ (b.kind = "inf" /\ b.num < 0)
      [] b.kind = "inf" -> b.num < 0
      [] OTHER -> a.num * b.den >= b.num * a.den

FLt(a, b) == ~IsNaN(a) /\ ~IsNaN(b) /\ ~FGe(a, b)

\* a = b as numbers (False when either is not a fraction)
FEq(a, b) == IsNum(a) /\ IsNum(b) /\ a.num * b.den = b.num * a.den

CorrNaN == [nan |-> TRUE]

-----------------------------------------------------------------------------
(* consolidate_ferc1_expns and ferc1_expns_corr *)

HoursPerYear == 8760

\* analysis.py: the expns_* fields that are correlated with net generation
cols_to_correlate ==
    << "expns_operations", "expns_fuel", "expns_coolants", "expns_steam",
       "expns_steam_other", "expns_transfer", "expns_electric",
       "expns_misc_power", "expns_rents", "expns_allowances",
       "expns_engineering", "expns_structures", "expns_boiler",
       "expns_plants", "expns_misc_steam" >>

\* np.corrcoef(x, y)[0, 1]: Pearson's r = cov / sqrt(varx * vary), kept exact
\* as the pair (cov, varx * vary), both scaled by n * n.  It is NaN when
\* either variance is zero, which includes fewer than two points.
corrcoef(xs, ys) ==
    LET n   == Len(xs)
        Sx  == SumSeq(xs)
        Sy  == SumSeq(ys)
        Sxx == SumSeq([i \in 1..n |-> xs[i] * xs[i]])
        Syy == SumSeq([i \in 1..n |-> ys[i] * ys[i]])
        Sxy == SumSeq([i \in 1..n |-> xs[i] * ys[i]])
        cov == n * Sxy - Sx * Sy
        vx  == n * Sxx - Sx * Sx
        vy  == n * Syy - Sy * Sy
    IN  IF vx * vy = 0 THEN CorrNaN
        ELSE [nan |-> FALSE, cov |-> cov, vv |-> vx * vy]

\* r >= q for a correlation r and a fraction q; False when r is NaN
CorrGe(r, q) ==
    /\ ~r.nan
    /\ IF q.num > 0
       THEN r.cov > 0 /\ r.cov * r.cov * q.den * q.den >= q.num * q.num * r.vv
       ELSE r.cov >= 0 \/ r.cov * r.cov * q.den * q.den <= q.num * q.num * r.vv

\* A variant of the test below that takes a NaN for a low correlation
CorrLtOrNaN(r, q) == r.nan \/ ~CorrGe(r, q)

\* r < q; False when r is NaN
CorrLt(r, q) == ~r.nan /\ ~CorrGe(r, q)

\* analysis.py 328-332: the rows kept for the correlations.  The code
\* evaluates net_generation_mwh / 8760 * total_capacity_mw > min_capfac.
CapfacFilter(steam_df, min_capfac) ==
    SelectSeq(steam_df,
              LAMBDA r : r["net_generation_mwh"] * r["total_capacity_mw"]
                           * min_capfac.den > min_capfac.num * HoursPerYear)

\* analysis.py 351-357: for each category, the correlation of its non-zero
\* values with the net generation of the same rows
ferc1_expns_corr(steam_df, min_capfac) ==
    LET kept == CapfacFilter(steam_df, min_capfac)
    IN  [e \in {cols_to_correlate[i] : i \in 1..Len(cols_to_correlate)} |->
            LET nz == SelectSeq(kept, LAMBDA r : r[e] # 0)
            IN  corrcoef(MapSeq(nz, LAMBDA r : r["net_generation_mwh"]),
                         MapSeq(nz, LAMBDA r : r[e]))]

\* expns_corr.pop('expns_fuel'): the keys left in the dictionary
NonFuelCols == SelectSeq(cols_to_correlate, LAMBDA e : e # "expns_fuel")

\* analysis.py 291
\* A variant of nonfuel_px that leaves out a correlation equal to min_corr
nonfuel_px_strict(expns_corr, min_corr) ==
    SelectSeq(NonFuelCols,
              LAMBDA k : /\ CorrGe(expns_corr[k], min_corr)
                         /\ expns_corr[k].cov * expns_corr[k].cov
                               * min_corr.den * min_corr.den
                            # min_corr.num * min_corr.num * expns_corr[k].vv)

nonfuel_px(expns_corr, min_corr) ==
    SelectSeq(NonFuelCols, LAMBDA k : CorrGe(expns_corr[k], min_corr))

\* analysis.py 292
npx(expns_corr, min_corr) ==
    SelectSeq(NonFuelCols, LAMBDA k : CorrLt(expns_corr[k], min_corr))

\* analysis.py 281-302: a copy of steam_df with the two totals added
consolidate_ferc1_expns(steam_df, min_capfac, min_corr) ==
    LET expns_corr == ferc1_expns_corr(steam_df, min_capfac)
        px  == nonfuel_px(expns_corr, min_corr)
        np_ == npx(expns_corr, min_corr)
    IN  [i \in 1..Len(steam_df) |->
            steam_df[i] @@
            ("expns_total_nonfuel_production" :> SumCols(steam_df[i], px)) @@
            ("expns_total_nonproduction" :> SumCols(steam_df[i], np_))]

\* The steam tables the calls are tried on.
MaxSteamRows == 3
MaxGen == 2
MaxExpns == 2
CapVals == {4380, 8760}
MinCapfacs == {Frac(3, 5)}
MinCorrs == {Frac(1, 2), Frac(1, 1)}

\* The categories that carry the first expense value of a generated row
\* (never zero); the others carry the second (zero for a plant without that
\* kind of expense).
ExpnsGroupA == {"expns_fuel", "expns_operations", "expns_steam",
                "expns_electric", "expns_boiler"}

SteamRow(g, c, a, b) ==
    [col \in {"net_generation_mwh", "total_capacity_mw"}
              \cup {cols_to_correlate[i] : i \in 1..Len(cols_to_correlate)} |->
        IF col = "net_generation_mwh" THEN g
        ELSE IF col = "total_capacity_mw" THEN c
        ELSE IF col \in ExpnsGroupA THEN a ELSE b]

SteamRows ==
    {SteamRow(g, c, a, b) : g \in 1..MaxGen, c \in CapVals,
                            a \in 1..MaxExpns, b \in 0..MaxExpns}

SteamTables == UNION {[1..n -> SteamRows] : n \in 0..MaxSteamRows}

InitExpns ==
    /\ fn = "consolidate_ferc1_expns"
    /\ \E t \in SteamTables, cf \in MinCapfacs, mc \in MinCorrs :
          arg = [steam_df |-> t, min_capfac |-> cf, min_corr |-> mc]
    /\ arg0 = arg
    /\ db = <<>>
    /\ ret = <<>>

CallConsolidate ==
    /\ fn = "consolidate_ferc1_expns"
    /\ Len(ret) < MaxCalls
    /\ ret' = Append(ret, Ok(consolidate_ferc1_expns(arg.steam_df,
                                   arg.min_capfac, arg.min_corr)))
    /\ UNCHANGED <<fn, arg, arg0, db>>

NextExpns == CallConsolidate

SpecExpns == InitExpns /\ [][NextExpns]_vars

\* C1: in every row of consolidate_ferc1_expns's output,
\* expns_total_nonfuel_production + expns_total_nonproduction + expns_fuel
\* equals the sum of the row's fifteen expense columns.
C1_TotalsCoverAllExpenses ==
    \A k \in 1..Len(ret) :
        (fn = "consolidate_ferc1_expns" /\ ret[k].ok) =>
            \A i \in 1..Len(ret[k].val) :
                LET row == ret[k].val[i]
                IN  row["expns_total_nonfuel_production"]
                      + row["expns_total_nonproduction"] + row["expns_fuel"]
                    = SumCols(row, cols_to_correlate)

-----------------------------------------------------------------------------
(* plant_fuel_proportions_* and primary_fuel_*                              *)
(* These functions read which columns a frame has, so the frames they pass  *)
(* on are records [columns, rows].                                          *)

\* pandas sorts the pivoted fuel columns by name
FuelOrder == <<"coal", "gas", "oil">>

\* DataFrame.pivot_table(index=idx, columns=col, values=val), whose aggfunc
\* defaults to 'mean': one row per combination of the index columns present,
\* one column per value of col present anywhere in df, each cell the mean of
\* val over the rows of that combination and column value, NaN when there is
\* none
pivot_table(df, idx, col, val) ==
    LET newcols == {r[col] : r \in Range(df)}
        cell(k, c) ==
            LET rs == SelectSeq(df, LAMBDA r : Restrict(r, idx) = k /\ r[col] = c)
            IN  IF rs = <<>> THEN NaN
                ELSE Frac(SumSeq(MapSeq(rs, LAMBDA r : r[val])), Len(rs))
    IN  [columns |-> idx \cup newcols,
         rows |-> SetToSeq({k @@ [c \in newcols |-> cell(k, c)] :
                            k \in {Restrict(r, idx) : r \in Range(df)}})]

\* fillna(value=0) on one cell
fillna0(x) == IF IsNaN(x) THEN Frac(0, 1) ELSE x

\* heat_pivot.sum(axis=1): the sum of the fuel columns of a row, NaN skipped
RowTotal(row, fuels) ==
    FSum(MapSeq(SetToSeq(fuels), LAMBDA f : fillna0(row[f])))

\* FuelShares with a zero total giving shares of 0 instead of 0/0
FuelSharesZeroFilled(row, fuels) ==
    [f \in fuels |->
        IF RowTotal(row, fuels).num = 0 THEN Frac(0, 1)
        ELSE FDiv(fillna0(row[f]), RowTotal(row, fuels))]

\* heat_pivot.fillna(0).divide(heat_pivot.total, axis='index'): the fuel
\* columns of a row divided by the row's total
FuelShares(row, fuels) ==
    [f \in fuels |-> FDiv(fillna0(row[f]), RowTotal(row, fuels))]

\* analysis.py 756-788
plant_fuel_proportions_ferc1(fuel_df) ==
    LET idx == {"report_year", "respondent_id", "plant_name"}
        heat_df == [i \in 1..Len(fuel_df) |->
                      ("total_mmbtu" :> fuel_df[i]["fuel_qty_burned"]
                                        * fuel_df[i]["fuel_avg_mmbtu_per_unit"])
                      @@ fuel_df[i]]
        heat_pivot == pivot_table(heat_df, idx, "fuel", "total_mmbtu")
        fuels == heat_pivot.columns \ idx
    IN  [columns |-> heat_pivot.columns \cup {"total_mmbtu"},
         rows |-> MapSeq(heat_pivot.rows,
                         LAMBDA row : Restrict(row, idx)
                                      @@ FuelShares(row, fuels)
                                      @@ ("total_mmbtu" :> RowTotal(row, fuels)))]

\* analysis.py 791-838
plant_fuel_proportions_frc_eia923(frc_df, id_col) ==
    LET with_heat == [i \in 1..Len(frc_df) |->
                        ("total_mmbtu" :> frc_df[i]["fuel_quantity"]
                                          * frc_df[i]["average_heat_content"])
                        @@ frc_df[i]]
        heat_df == GroupBySum(WithYear(with_heat, "report_date", "year"),
                              {id_col, "year", "fuel_group"}, {"total_mmbtu"})
        idx == {"year", id_col}
        heat_pivot == pivot_table(heat_df, idx, "fuel_group", "total_mmbtu")
        fuels == heat_pivot.columns \ idx
    IN  [columns |-> heat_pivot.columns,
         rows |-> MapSeq(heat_pivot.rows,
                         LAMBDA row : Restrict(row, idx) @@ FuelShares(row, fuels))]

\* analysis.py 859-908
plant_fuel_proportions_gf_eia923(gf_df) ==
    LET heat_df == GroupBySum(WithYear(gf_df, "report_date", "year"),
                              {"plant_id", "year", "fuel_type_pudl"},
                              {"fuel_consumed_total_mmbtu"})
        idx == {"year", "plant_id"}
        heat_pivot == pivot_table(heat_df, idx, "fuel_type_pudl",
                                  "fuel_consumed_total_mmbtu")
        fuels == heat_pivot.columns \ idx
    IN  [columns |-> heat_pivot.columns,
         rows |-> MapSeq(heat_pivot.rows,
                         LAMBDA row : Restrict(row, idx) @@ FuelShares(row, fuels))]

\* The missing value of a primary_fuel cell
None == "None"

\* by_heat.where(by_heat >= fuel_thresh).idxmax(axis=1) on one row: the first
\* column, in column order, that holds the largest of the values that are
\* >= fuel_thresh; missing when no value is
idxmax_where(row, cols, fuel_thresh) ==
    LET kept == {c \in cols : FGe(row[c], fuel_thresh)}
        best == {c \in kept : \A d \in kept : FGe(row[c], row[d])}
    IN  IF best = {} THEN None
        ELSE FuelOrder[CHOOSE i \in 1..Len(FuelOrder) :
                          /\ FuelOrder[i] \in best
                          /\ \A j \in 1..(i - 1) : FuelOrder[j] \notin best]

\* frame.set_index(idx), mask, idxmax and frame[['primary_fuel']].reset_index():
\* KeyError when a column of idx is missing; dropped are the columns in drop
PrimaryFuel(by_heat, idx, drop, fuel_thresh) ==
    IF ~(idx \subseteq by_heat.columns) THEN Raise("KeyError")
    ELSE Ok(MapSeq(by_heat.rows,
                   LAMBDA row :
                       Restrict(row, idx)
                       @@ ("primary_fuel" :>
                             idxmax_where(row, by_heat.columns \ (idx \cup drop),
                                          fuel_thresh))))

\* analysis.py 719-753
primary_fuel_ferc1(fuel_df, fuel_thresh) ==
    PrimaryFuel(plant_fuel_proportions_ferc1(fuel_df),
                {"report_year", "respondent_id", "plant_name"},
                {"total_mmbtu"}, fuel_thresh)

\* analysis.py 841-856: the proportions are computed with the default id_col
primary_fuel_frc_eia923(frc_df, id_col, fuel_thresh) ==
    PrimaryFuel(plant_fuel_proportions_frc_eia923(frc_df, "plant_id_eia"),
                {id_col, "year"}, {}, fuel_thresh)

\* analysis.py 911-926
primary_fuel_gf_eia923(gf_df, id_col, fuel_thresh) ==
    PrimaryFuel(plant_fuel_proportions_gf_eia923(gf_df),
                {id_col, "report_year"}, {}, fuel_thresh)

\* The fuel tables the calls are tried on.
MaxFuelRows == 3
MaxQty == 2
Fuels == {"coal", "gas"}
\* Heat content of one unit of a fuel
MmbtuPerUnit(f) == IF f = "coal" THEN 2 ELSE 1
FuelThreshs == {Frac(1, 2)}

\* (report_year, respondent_id, plant_name)
FercPlantYears == {<<2015, 1, "A">>, <<2016, 1, "A">>, <<2015, 1, "B">>}
\* (report_date, plant_id_eia, plant_id_pudl)
EiaPlantMonths == {<<Date(2015, 3), 1, 10>>, <<Date(2015, 9), 1, 10>>,
                   <<Date(2016, 3), 1, 10>>, <<Date(2015, 3), 2, 10>>}

FercFuelRows ==
    {[report_year |-> k[1], respondent_id |-> k[2], plant_name |-> k[3],
      fuel |-> f, fuel_qty_burned |-> q,
      fuel_avg_mmbtu_per_unit |-> MmbtuPerUnit(f)] :
     k \in FercPlantYears, f \in Fuels, q \in 0..MaxQty}

FrcRows ==
    {[report_date |-> k[1], plant_id_eia |-> k[2], plant_id_pudl |-> k[3],
      fuel_group |-> f, fuel_quantity |-> q,
      average_heat_content |-> MmbtuPerUnit(f)] :
     k \in EiaPlantMonths, f \in Fuels, q \in 0..MaxQty}

GfRows ==
    {[report_date |-> k[1], plant_id |-> k[2], fuel_type_pudl |-> f,
      fuel_consumed_total_mmbtu |-> q * MmbtuPerUnit(f)] :
     k \in EiaPlantMonths, f \in Fuels, q \in 0..MaxQty}

FuelTables(rows) == UNION {[1..n -> rows] : n \in 1..MaxFuelRows}

InitFuel ==
    /\ \/ /\ fn \in {"plant_fuel_proportions_ferc1", "primary_fuel_ferc1"}
          /\ \E t \in FuelTables(FercFuelRows), th \in FuelThreshs :
                arg = [df |-> t, id_col |-> "", fuel_thresh |-> th]
       \/ /\ fn \in {"plant_fuel_proportions_frc_eia923", "primary_fuel_frc_eia923"}
          /\ \E t \in FuelTables(FrcRows), th \in FuelThreshs,
                id \in {"plant_id_eia", "plant_id_pudl"} :
                arg = [df |-> t, id_col |-> id, fuel_thresh |-> th]
       \/ /\ fn \in {"plant_fuel_proportions_gf_eia923", "primary_fuel_gf_eia923"}
          /\ \E t \in FuelTables(GfRows), th \in FuelThreshs :
                arg = [df |-> t, id_col |-> "plant_id_eia", fuel_thresh |-> th]
    /\ arg0 = arg
    /\ db = <<>>
    /\ ret = <<>>

\* Every function of the family works on a copy of its frame.
CallFuel(name, result) ==
    /\ fn = name
    /\ Len(ret) < MaxCalls
    /\ ret' = Append(ret, result)
    /\ UNCHANGED <<fn, arg, arg0, db>>

CallProportionsFerc1 ==
    CallFuel("plant_fuel_proportions_ferc1",
             Ok(plant_fuel_proportions_ferc1(arg.df)))

CallProportionsFrc ==
    CallFuel("plant_fuel_proportions_frc_eia923",
             Ok(plant_fuel_proportions_frc_eia923(arg.df, arg.id_col)))

CallProportionsGf ==
    CallFuel("plant_fuel_proportions_gf_eia923",
             Ok(plant_fuel_proportions_gf_eia923(arg.df)))

CallPrimaryFerc1 ==
    CallFuel("primary_fuel_ferc1", primary_fuel_ferc1(arg.df, arg.fuel_thresh))

CallPrimaryFrc ==
    CallFuel("primary_fuel_frc_eia923",
             primary_fuel_frc_eia923(arg.df, arg.id_col, arg.fuel_thresh))

CallPrimaryGf ==
    CallFuel("primary_fuel_gf_eia923",
             primary_fuel_gf_eia923(arg.df, arg.id_col, arg.fuel_thresh))

NextFuel ==
    \/ CallProportionsFerc1
    \/ CallProportionsFrc
    \/ CallProportionsGf
    \/ CallPrimaryFerc1
    \/ CallPrimaryFrc
    \/ CallPrimaryGf

SpecFuel == InitFuel /\ [][NextFuel]_vars

(* What the properties of the family read *)

ProportionFns == {"plant_fuel_proportions_ferc1",
                  "plant_fuel_proportions_frc_eia923",
                  "plant_fuel_proportions_gf_eia923"}

\* The heat content of one input row, in the columns of the function called
InputHeat(r) ==
    CASE fn \in {"plant_fuel_proportions_ferc1", "primary_fuel_ferc1"} ->
            r["fuel_qty_burned"] * r["fuel_avg_mmbtu_per_unit"]
      [] fn \in {"plant_fuel_proportions_frc_eia923", "primary_fuel_frc_eia923"} ->
            r["fuel_quantity"] * r["average_heat_content"]
      [] OTHER -> r["fuel_consumed_total_mmbtu"]

\* The fuel of one input row
InputFuel(r) ==
    CASE fn \in {"plant_fuel_proportions_ferc1", "primary_fuel_ferc1"} -> r["fuel"]
      [] fn \in {"plant_fuel_proportions_frc_eia923", "primary_fuel_frc_eia923"} ->
            r["fuel_group"]
      [] OTHER -> r["fuel_type_pudl"]

\* The (plant, year) of one input row, named as the output names it
InputGroup(r) ==
    CASE fn \in {"plant_fuel_proportions_ferc1", "primary_fuel_ferc1"} ->
            Restrict(r, {"report_year", "respondent_id", "plant_name"})
      [] fn \in {"plant_fuel_proportions_frc_eia923", "primary_fuel_frc_eia923"} ->
            (arg.id_col :> r[arg.id_col]) @@ ("year" :> r["report_date"].year)
      [] OTHER -> ("plant_id" :> r["plant_id"]) @@ ("year" :> r["report_date"].year)

GroupCols ==
    CASE fn \in {"plant_fuel_proportions_ferc1", "primary_fuel_ferc1"} ->
            {"report_year", "respondent_id", "plant_name"}
      [] fn \in {"plant_fuel_proportions_frc_eia923", "primary_fuel_frc_eia923"} ->
            {arg.id_col, "year"}
      [] OTHER -> {"plant_id", "year"}

\* The heat content of fuel f summed over the input rows of group g
GroupHeat(g, f) ==
    SumSeq(MapSeq(SelectSeq(arg.df, LAMBDA r : InputGroup(r) = g /\ InputFuel(r) = f),
                  InputHeat))

\* The fuel-share columns of a proportions frame
ShareCols(frame) == frame.columns \ (GroupCols \cup {"total_mmbtu"})

SharesSumToOne(frame, row) ==
    /\ \A f \in ShareCols(frame) : IsNum(row[f])
    /\ FEq(FSum(MapSeq(SetToSeq(ShareCols(frame)), LAMBDA f : row[f])), Frac(1, 1))

SomeHeat(row) ==
    \E i \in 1..Len(arg.df) :
        InputGroup(arg.df[i]) = Restrict(row, GroupCols) /\ InputHeat(arg.df[i]) # 0

C3_PrimaryFuelBySummedHeat ==
    \A k \in 1..Len(ret) :
        fn = "primary_fuel_ferc1" =>
            /\ ret[k].ok
            /\ \A g \in {InputGroup(r) : r \in Range(arg.df)} :
                  Cardinality({i \in 1..Len(ret[k].val) :
                                 Restrict(ret[k].val[i], GroupCols) = g}) = 1
            /\ \A i \in 1..Len(ret[k].val) :
                  LET row   == ret[k].val[i]
                      g     == Restrict(row, GroupCols)
                      fuels == {InputFuel(r) : r \in Range(arg.df)}
                      total == SumSeq(MapSeq(SetToSeq(fuels),
                                             LAMBDA f : GroupHeat(g, f)))
                      top   == {f \in fuels :
                                  \A f2 \in fuels : GroupHeat(g, f) >= GroupHeat(g, f2)}
                  IN  /\ \E r \in Range(arg.df) : InputGroup(r) = g
                      /\ total > 0 =>
                            \A f \in top :
                                IF GroupHeat(g, f) * arg.fuel_thresh.den
                                     < arg.fuel_thresh.num * total
                                THEN row["primary_fuel"] = None
                                ELSE row["primary_fuel"] \in top

-----------------------------------------------------------------------------
(* capacity_factor *)

\* analysis.py 217-221 with the second comparison strict
OutlierToNaNStrict(cf) ==
    IF FLt(cf, Frac(0, 1)) \/ FLt(Frac(3, 2), cf) THEN NaN ELSE cf

\* analysis.py 217-221: capacity factors < 0 or >= 1.5 are replaced by NaN
OutlierToNaN(cf) ==
    IF FLt(cf, Frac(0, 1)) \/ FGe(cf, Frac(3, 2)) THEN NaN ELSE cf

\* analysis.py 205-234.  The merge is on all four key columns, so no _x / _y
\* column arises and lines 223-232 change nothing.
capacity_factor(g9_summed, g8) ==
    LET merged == MergeInner(g9_summed, g8,
                             {"plant_id_eia", "plant_id_pudl", "generator_id",
                              "report_year"})
    IN  MapSeq(merged,
               LAMBDA r :
                   ("capacity_factor" :>
                       OutlierToNaN(FDiv(Frac(r["net_generation_mwh"], 1),
                                         Frac(r["nameplate_capacity_mw"]
                                                * HoursPerYear, 1))))
                   @@ r)

\* The generator tables the calls are tried on.
MaxGenRows == 2
\* (plant_id_eia, plant_id_pudl, generator_id, report_year)
GeneratorYears == {<<1, 10, "G1", 2015>>, <<1, 10, "G2", 2015>>,
                   <<1, 10, "G1", 2016>>}
\* Generation that gives capacity factors -1, 0, 1, 1.5 and 2 on 1 MW
NetGenMwhs == {-8760, 0, 8760, 13140, 17520}
CapacityMws == {0, 1, 2}

G9Rows ==
    {[plant_id_eia |-> k[1], plant_id_pudl |-> k[2], generator_id |-> k[3],
      report_year |-> k[4], net_generation_mwh |-> g] :
     k \in GeneratorYears, g \in NetGenMwhs}

G8Rows ==
    {[plant_id_eia |-> k[1], plant_id_pudl |-> k[2], generator_id |-> k[3],
      report_year |-> k[4], nameplate_capacity_mw |-> c] :
     k \in GeneratorYears, c \in CapacityMws}

InitCapfac ==
    /\ fn = "capacity_factor"
    /\ \E a \in UNION {[1..n -> G9Rows] : n \in 0..MaxGenRows},
          b \in UNION {[1..n -> G8Rows] : n \in 0..MaxGenRows} :
          arg = [g9_summed |-> a, g8 |-> b]
    /\ arg0 = arg
    /\ db = <<>>
    /\ ret = <<>>

CallCapacityFactor ==
    /\ fn = "capacity_factor"
    /\ Len(ret) < MaxCalls
    /\ ret' = Append(ret, Ok(capacity_factor(arg.g9_summed, arg.g8)))
    /\ UNCHANGED <<fn, arg, arg0, db>>

NextCapfac == CallCapacityFactor

SpecCapfac == InitCapfac /\ [][NextCapfac]_vars

GeneratorKey == {"plant_id_eia", "plant_id_pudl", "generator_id", "report_year"}

\* The pairs (row of g9_summed, row of g8) that agree on the four key columns
CapfacMatches ==
    {p \in (1..Len(arg.g9_summed)) \X (1..Len(arg.g8)) :
        Restrict(arg.g9_summed[p[1]], GeneratorKey)
          = Restrict(arg.g8[p[2]], GeneratorKey)}

\* Whether net / (cap * 8760) is a number v with 0 <= v < 1.5
CapfacInRange(net, cap) ==
    \/ cap > 0 /\ net >= 0 /\ 2 * net < 3 * cap * HoursPerYear
    \/ cap < 0 /\ net <= 0 /\ 2 * net > 3 * cap * HoursPerYear

-----------------------------------------------------------------------------
(* merge_on_date_year                                                       *)
(* The frames are records [columns, rows]; the caller's frames are the      *)
(* objects arg.df_date and arg.df_year, which the function writes to.       *)

\* pd.infer_freq(pd.DatetimeIndex(values).sort_values()) on first-of-month
\* dates: pandas raises ValueError for fewer than 3 dates; the answer is
\* 'AS-JAN' when the dates are the January firsts of consecutive years
infer_freq(dates) ==
    IF Cardinality(dates) < 3 THEN "ValueError"
    ELSE IF /\ \A d \in dates : d.month = 1
            /\ \A d \in dates :
                  \/ \A e \in dates : e.year >= d.year
                  \/ \E e \in dates : e.year = d.year - 1
         THEN "AS-JAN"
         ELSE "other"

\* frame['year_temp'] = pd.to_datetime(frame[col]).dt.year
WithYearTemp(frame, col) ==
    [columns |-> frame.columns \cup {"year_temp"},
     rows |-> [i \in 1..Len(frame.rows) |->
                 ("year_temp" :> frame.rows[i][col].year)
                 @@ Restrict(frame.rows[i], frame.columns \ {"year_temp"})]]

\* frame.drop([col], axis=1)
DropColumn(frame, col) ==
    [columns |-> frame.columns \ {col},
     rows |-> [i \in 1..Len(frame.rows) |->
                 Restrict(frame.rows[i], frame.columns \ {col})]]

\* frame[cols]
SelectColumns(frame, cols) ==
    [columns |-> cols,
     rows |-> [i \in 1..Len(frame.rows) |-> Restrict(frame.rows[i], cols)]]

\* analysis.py 68 with the extra merge keys left out
full_on_year_only(on) == {"year_temp"}

\* analysis.py 68: full_on = on + ['year_temp']
full_on(on) == on \cup {"year_temp"}

\* analysis.py 55-58: the exception the three checks raise, "" when they pass
merge_precondition(df_date, df_year, date_col, year_col) ==
    IF date_col \notin df_date.columns THEN "AssertionError"
    ELSE IF year_col \notin df_year.columns THEN "AssertionError"
    ELSE LET f == infer_freq({r[year_col] : r \in Range(df_year.rows)})
         IN  IF f = "ValueError" THEN "ValueError"
             ELSE IF f # "AS-JAN" THEN "AssertionError"
             ELSE ""

\* analysis.py 61-77, how='inner': the value returned or raised
unshared_cols_all(df_year_columns, df_date_columns) == df_year_columns

unshared_cols(df_year_columns, df_date_columns) ==
    df_year_columns \ df_date_columns

\* The columns of pd.merge(left, right, on=on): a column of both frames that
\* is not a key comes out twice, suffixed _x and _y
MergedColumns(left_columns, right_columns, on) ==
    LET both == (left_columns \cap right_columns) \ on
    IN  ((left_columns \cup right_columns) \ both)
        \cup {b \o "_x" : b \in both} \cup {b \o "_y" : b \in both}

merge_on_date_year(df_date, df_year, on, date_col, year_col) ==
    LET year1 == DropColumn(WithYearTemp(df_year, year_col), year_col)
        date1 == WithYearTemp(df_date, date_col)
        cols_to_use == unshared_cols(year1.columns, date1.columns) \cup full_on(on)
    IN  IF ~(cols_to_use \subseteq year1.columns /\ full_on(on) \subseteq date1.columns)
        THEN Raise("KeyError")
        ELSE Ok(DropColumn(
                 [columns |-> MergedColumns(date1.columns, cols_to_use, full_on(on)),
                  rows |-> MergeInner(date1.rows,
                                      SelectColumns(year1, cols_to_use).rows,
                                      full_on(on))],
                 "year_temp"))

\* The frames the calls are tried on.
MaxDateRows == 2
MaxYearRows == 4

\* The annual frame: a capacity per plant and year
YearRow(d, p, datecol) ==
    (datecol :> d) @@ [plant_id |-> p, capacity_mw |-> 10 * (d.year - 2010) + p]

YearRows(datecol) ==
    {YearRow(Date(y, 1), 1, datecol) : y \in 2015..2018}
      \cup {YearRow(Date(2016, 7), 1, datecol), YearRow(Date(2016, 1), 2, datecol)}

YearFrames(datecol) ==
    {[columns |-> {datecol, "plant_id", "capacity_mw"}, rows |-> t] :
     t \in UNION {[1..n -> YearRows(datecol)] : n \in 0..MaxYearRows}}

\* The finer frame: monthly generation per plant
DateRows ==
    {[report_date |-> d, plant_id |-> p, net_generation_mwh |-> d.month] :
     d \in {Date(2015, 3), Date(2016, 11)}, p \in {1, 2}}

DateFrames ==
    {[columns |-> {"report_date", "plant_id", "net_generation_mwh"}, rows |-> t] :
     t \in UNION {[1..n -> DateRows] : n \in 0..MaxDateRows}}

\* (name of the annual frame's date column, date_col, year_col, on)
MergeCalls ==
    {<<"report_date", "report_date", "report_date", {}>>,
     <<"report_date", "report_date", "report_date", {"plant_id"}>>,
     <<"year_date", "report_date", "year_date", {}>>,
     <<"year_date", "report_date", "year_date", {"plant_id"}>>,
     <<"report_date", "report_date", "year_date", {}>>,
     <<"report_date", "date", "report_date", {}>>}

InitMerge ==
    /\ fn = "merge_on_date_year"
    /\ \E c \in MergeCalls :
          \E d \in DateFrames, y \in YearFrames(c[1]) :
              arg = [df_date |-> d, df_year |-> y, on |-> c[4],
                     date_col |-> c[2], year_col |-> c[3]]
    /\ arg0 = arg
    /\ db = <<>>
    /\ ret = <<>>

\* A call that an assertion or infer_freq stops: nothing is written
CallMergeRejected ==
    /\ fn = "merge_on_date_year"
    /\ Len(ret) < MaxCalls
    /\ merge_precondition(arg.df_date, arg.df_year, arg.date_col, arg.year_col) # ""
    /\ ret' = Append(ret, Raise(merge_precondition(arg.df_date, arg.df_year,
                                                   arg.date_col, arg.year_col)))
    /\ UNCHANGED <<fn, arg, arg0, db>>

\* analysis.py 62-65: what the call leaves in the caller's df_year.  Line 62
\* writes year_temp into it; the drop of line 65 acts on a copy.  A variant
\* whose drop acts on the caller's frame comes first.
df_year_written_and_dropped(df_year, year_col) ==
    DropColumn(WithYearTemp(df_year, year_col), year_col)

df_year_written(df_year, year_col) == WithYearTemp(df_year, year_col)

\* A call that passes the checks: lines 62 and 66 write year_temp into the
\* caller's two frames, then the merge is returned
CallMerge ==
    /\ fn = "merge_on_date_year"
    /\ Len(ret) < MaxCalls
    /\ merge_precondition(arg.df_date, arg.df_year, arg.date_col, arg.year_col) = ""
    /\ arg' = [arg EXCEPT !.df_year = df_year_written(arg.df_year, arg.year_col),
                          !.df_date = WithYearTemp(arg.df_date, arg.date_col)]
    /\ ret' = Append(ret, merge_on_date_year(arg.df_date, arg.df_year, arg.on,
                                             arg.date_col, arg.year_col))
    /\ UNCHANGED <<fn, arg0, db>>

NextMerge == CallMergeRejected \/ CallMerge

SpecMerge == InitMerge /\ [][NextMerge]_vars

\* The pairs (row of df_date, row of df_year), as the caller passed them, of
\* the same calendar year and equal on the columns of on
MergePairs ==
    {p \in (1..Len(arg0.df_date.rows)) \X (1..Len(arg0.df_year.rows)) :
        LET d == arg0.df_date.rows[p[1]]
            y == arg0.df_year.rows[p[2]]
        IN  /\ d[arg0.date_col].year = y[arg0.year_col].year
            /\ \A c \in arg0.on : d[c] = y[c]}

\* The row the pair p stands for: the df_date row with the columns that only
\* df_year has, its annual date column excepted
MergedRow(p) ==
    arg0.df_date.rows[p[1]]
    @@ Restrict(arg0.df_year.rows[p[2]],
                arg0.df_year.columns \ (arg0.df_date.columns \cup {arg0.year_col}))

\* C5: with how='inner', a call of merge_on_date_year that its checks let
\* through returns exactly one row for each pair (row of df_date, row of
\* df_year) of equal calendar year and equal 'on' columns, and no other row;
\* the output has no year_temp column, not df_year's annual date column, and
\* keeps df_date's date column.
C5_OneRowPerMatchedPair ==
    \A k \in 1..Len(ret) :
        (fn = "merge_on_date_year" /\ ret[k].ok) =>
            LET out == ret[k].val
            IN  /\ Len(out.rows) = Cardinality(MergePairs)
                /\ \A p \in MergePairs :
                      Cardinality({i \in 1..Len(out.rows) : out.rows[i] = MergedRow(p)})
                      = Cardinality({q \in MergePairs : MergedRow(q) = MergedRow(p)})
                /\ \A i \in 1..Len(out.rows) : DOMAIN out.rows[i] = out.columns
                /\ "year_temp" \notin out.columns
                /\ arg0.date_col \in out.columns
                /\ arg0.year_col \notin arg0.df_date.columns
                      => arg0.year_col \notin out.columns

\* C5's case: a merge on differently named date columns in which one df_date
\* row matches two df_year rows and another matches none
C5_Witness ==
    /\ fn = "merge_on_date_year"
    /\ arg0.year_col # arg0.date_col
    /\ \E k \in 1..Len(ret) :
          /\ ret[k].ok
          /\ \E i, j \in 1..Len(arg0.df_date.rows) :
                /\ Cardinality({p \in MergePairs : p[1] = i}) = 2
                /\ Cardinality({p \in MergePairs : p[1] = j}) = 0

\* The distinct values are the January firsts of consecutive years
JanuaryFirstsOfConsecutiveYears(dates) ==
    /\ dates # {}
    /\ \A d \in dates : d.month = 1
    /\ \A d \in dates :
          \/ \A e \in dates : e.year >= d.year
          \/ \E e \in dates : e.year = d.year - 1

\* C6: merge_on_date_year raises, having written to neither input, when
\* date_col is missing from df_date, when year_col is missing from df_year or
\* when the distinct year_col values are not January firsts one year apart;
\* when they are, whatever their number, the call goes through.
C6_RejectsExactlyTheIrregular ==
    \A k \in 1..Len(ret) :
        fn = "merge_on_date_year" =>
            IF \/ arg0.date_col \notin arg0.df_date.columns
               \/ arg0.year_col \notin arg0.df_year.columns
               \/ ~JanuaryFirstsOfConsecutiveYears(
                     {r[arg0.year_col] : r \in Range(arg0.df_year.rows)})
            THEN ~ret[k].ok /\ arg = arg0
            ELSE ret[k].ok

-----------------------------------------------------------------------------
(* yearly_sum_eia *)

\* analysis.py 200-202: the frame returned.  Line 200 writes the column
\* report_year into the caller's frame; the rows are grouped by `columns`,
\* whatever it holds.
yearly_sum_eia(df, sum_by, columns) ==
    GroupBySum(WithYear(df, "report_date", "report_year"), columns, {sum_by})

\* analysis.py 174: the default of `columns`
default_columns == {"plant_id_eia", "generator_id"}

\* The generation tables the calls are tried on.
MaxSumRows == 3

GenerationRows ==
    {[report_date |-> d, plant_id_eia |-> 1, generator_id |-> g,
      net_generation_mwh |-> v] :
     d \in {Date(2015, 3), Date(2015, 9), Date(2016, 3)},
     g \in {"G1", "G2"}, v \in {100, 150}}

InitSum ==
    /\ fn = "yearly_sum_eia"
    /\ \E t \in UNION {[1..n -> GenerationRows] : n \in 0..MaxSumRows},
          c \in {default_columns, default_columns \cup {"report_year"}} :
          arg = [df |-> t, sum_by |-> "net_generation_mwh", columns |-> c]
    /\ arg0 = arg
    /\ db = <<>>
    /\ ret = <<>>

CallYearlySum ==
    /\ fn = "yearly_sum_eia"
    /\ Len(ret) < MaxCalls
    /\ arg' = [arg EXCEPT !.df = WithYear(arg.df, "report_date", "report_year")]
    /\ ret' = Append(ret, Ok(yearly_sum_eia(arg.df, arg.sum_by, arg.columns)))
    /\ UNCHANGED <<fn, arg0, db>>

NextSum == CallYearlySum

SpecSum == InitSum /\ [][NextSum]_vars

\* The grouping columns of the call other than the year
SumKeyCols == arg0.columns \ {"report_year"}

\* The input rows of one combination of grouping columns and report year
SumGroup(key, year) ==
    SelectSeq(arg0.df, LAMBDA r : Restrict(r, SumKeyCols) = key
                                   /\ r["report_date"].year = year)

\* C7: yearly_sum_eia returns exactly one row per combination of the grouping
\* columns and report year present in the input, holding the sum of sum_by
\* over the input rows of that combination; rows of different report years
\* are never added together.
C7_OneSumPerGroupAndYear ==
    \A k \in 1..Len(ret) :
        fn = "yearly_sum_eia" =>
            LET out == ret[k].val
                combos == {<<Restrict(r, SumKeyCols), r["report_date"].year>> :
                           r \in Range(arg0.df)}
            IN  /\ Len(out) = Cardinality(combos)
                /\ \A c \in combos :
                      \E i \in 1..Len(out) :
                          /\ Restrict(out[i], SumKeyCols) = c[1]
                          /\ out[i][arg0.sum_by]
                               = SumSeq(MapSeq(SumGroup(c[1], c[2]),
                                               LAMBDA r : r[arg0.sum_by]))

-----------------------------------------------------------------------------
(* fuel_ferc1_by_pudl, steam_ferc1_by_pudl, frc_by_pudl, gen_fuel_by_pudl *)

\* The fuels argument: the string 'all', or a list of fuel names.
FuelsAll == [all |-> TRUE, list |-> {}]

FuelsList(l) == [all |-> FALSE, list |-> l]

\* analysis.py 436: df[df.plant_id_pudl.isin(pudl_plant_ids)].  A variant that
\* keeps every row when the list is empty comes first.
isin_plant_ids_or_all(df, pudl_plant_ids) ==
    SelectSeq(df, LAMBDA r : pudl_plant_ids = {} \/ r["plant_id_pudl"] \in pudl_plant_ids)

isin_plant_ids(df, pudl_plant_ids) ==
    SelectSeq(df, LAMBDA r : r["plant_id_pudl"] \in pudl_plant_ids)

\* analysis.py 441: df[df['fuel'].isin(fuels)]
isin_fuels(df, fuels) == SelectSeq(df, LAMBDA r : r["fuel"] \in fuels)

\* analysis.py 437-443: the columns grouped by.  A variant that never groups
\* by fuel comes first.
cols_to_gb_no_fuel(fuels) == {"plant_id_pudl", "report_year"}

cols_to_gb(fuels) ==
    IF fuels.all THEN {"plant_id_pudl", "report_year"}
    ELSE {"plant_id_pudl", "report_year", "fuel"}

\* analysis.py 434-450
fuel_ferc1_by_pudl(fuel_ferc1_df, pudl_plant_ids, fuels, cols) ==
    LET kept   == isin_plant_ids(fuel_ferc1_df, pudl_plant_ids)
        fuel_df == IF fuels.all THEN kept ELSE isin_fuels(kept, fuels.list)
    IN  GroupBySum(fuel_df, cols_to_gb(fuels), cols)

\* analysis.py 464-469
steam_ferc1_by_pudl(plants_steam_ferc1_df, pudl_plant_ids, cols) ==
    GroupBySum(isin_plant_ids(plants_steam_ferc1_df, pudl_plant_ids),
               {"plant_id_pudl", "report_year"}, cols)

\* analysis.py 494-525: the rows are grouped by the calendar year of
\* report_date, by plant and, for a list of fuels, by fuel; report_year is
\* the year of the group and report_date is dropped.
frc_by_pudl(frc_eia923_df, pudl_plant_ids, fuels, cols) ==
    LET kept   == isin_plant_ids(frc_eia923_df, pudl_plant_ids)
        frc_df == IF fuels.all THEN kept ELSE isin_fuels(kept, fuels.list)
    IN  GroupBySum(WithYear(frc_df, "report_date", "report_year"),
                   cols_to_gb(fuels), cols)

\* analysis.py 553: rename(columns={'fuel_type_pudl': 'fuel'})
rename_fuel_type_pudl(df) ==
    [i \in 1..Len(df) |->
        [c \in (DOMAIN df[i] \ {"fuel_type_pudl"}) \cup {"fuel"} |->
            IF c = "fuel" THEN df[i]["fuel_type_pudl"] ELSE df[i][c]]]

\* analysis.py 551-586
gen_fuel_by_pudl(gf_eia923_df, pudl_plant_ids, fuels, cols) ==
    LET kept  == isin_plant_ids(rename_fuel_type_pudl(gf_eia923_df), pudl_plant_ids)
        gf_df == IF fuels.all THEN kept ELSE isin_fuels(kept, fuels.list)
    IN  GroupBySum(WithYear(gf_df, "report_date", "report_year"),
                   cols_to_gb(fuels), cols)

\* The default column lists (analysis.py 418-420, 454, 474, 530-531)
fuel_ferc1_cols ==
    {"fuel_consumed_total_mmbtu", "fuel_consumed_total_cost_mmbtu",
     "fuel_consumed_total_cost_unit"}

steam_ferc1_cols == {"net_generation_mwh"}

frc_cols == {"total_fuel_cost"}

gen_fuel_cols == {"fuel_consumed_total_mmbtu", "net_generation_mwh"}

\* The database tables and arguments the calls are tried on.
MaxDbRows == 3
MaxVal == 2

DbFuels == {"coal", "waste"}

PlantIdLists == {{}, {1}, {1, 2}}

FuelsArgs ==
    {FuelsAll, FuelsList({"gas", "oil", "coal"}), FuelsList({"coal", "waste"})}

FuelFerc1Rows ==
    {[plant_id_pudl |-> p, report_year |-> y, fuel |-> f,
      fuel_consumed_total_mmbtu |-> v,
      fuel_consumed_total_cost_mmbtu |-> 2 * v,
      fuel_consumed_total_cost_unit |-> 3 * v] :
     p \in {1, 2}, y \in {2015, 2016}, f \in DbFuels, v \in 1..MaxVal}

PlantsSteamFerc1Rows ==
    {[plant_id_pudl |-> p, report_year |-> y, net_generation_mwh |-> v] :
     p \in {1, 2}, y \in {2015, 2016}, v \in 1..MaxVal}

FrcEia923Rows ==
    {[plant_id_pudl |-> p, report_date |-> d, fuel |-> f, total_fuel_cost |-> v] :
     p \in {1, 2}, d \in {Date(2015, 3), Date(2015, 9), Date(2016, 3)},
     f \in DbFuels, v \in 1..MaxVal}

GfEia923Rows ==
    {[plant_id_pudl |-> p, report_date |-> d, fuel_type_pudl |-> f,
      fuel_consumed_total_mmbtu |-> v, net_generation_mwh |-> 2 * v] :
     p \in {1, 2}, d \in {Date(2015, 3), Date(2015, 9), Date(2016, 3)},
     f \in DbFuels, v \in 1..MaxVal}

DbTables(rows) == UNION {[1..n -> rows] : n \in 0..MaxDbRows}

InitByPudl ==
    /\ \/ /\ fn = "fuel_ferc1_by_pudl"
          /\ \E t \in DbTables(FuelFerc1Rows) : db = [fuel_ferc1 |-> t]
          /\ \E ids \in PlantIdLists, f \in FuelsArgs :
                arg = [pudl_plant_ids |-> ids, fuels |-> f, cols |-> fuel_ferc1_cols]
       \/ /\ fn = "steam_ferc1_by_pudl"
          /\ \E t \in DbTables(PlantsSteamFerc1Rows) : db = [plants_steam_ferc1 |-> t]
          /\ \E ids \in PlantIdLists :
                arg = [pudl_plant_ids |-> ids, fuels |-> FuelsAll,
                       cols |-> steam_ferc1_cols]
       \/ /\ fn = "frc_by_pudl"
          /\ \E t \in DbTables(FrcEia923Rows) : db = [fuel_receipts_costs_eia923 |-> t]
          /\ \E ids \in PlantIdLists, f \in FuelsArgs :
                arg = [pudl_plant_ids |-> ids, fuels |-> f, cols |-> frc_cols]
       \/ /\ fn = "gen_fuel_by_pudl"
          /\ \E t \in DbTables(GfEia923Rows) : db = [generation_fuel_eia923 |-> t]
          /\ \E ids \in PlantIdLists, f \in FuelsArgs :
                arg = [pudl_plant_ids |-> ids, fuels |-> f, cols |-> gen_fuel_cols]
    /\ arg0 = arg
    /\ ret = <<>>

CallFuelFerc1ByPudl ==
    /\ fn = "fuel_ferc1_by_pudl"
    /\ Len(ret) < MaxCalls
    /\ ret' = Append(ret, Ok(fuel_ferc1_by_pudl(db.fuel_ferc1, arg.pudl_plant_ids,
                                                arg.fuels, arg.cols)))
    /\ UNCHANGED <<fn, arg, arg0, db>>

CallSteamFerc1ByPudl ==
    /\ fn = "steam_ferc1_by_pudl"
    /\ Len(ret) < MaxCalls
    /\ ret' = Append(ret, Ok(steam_ferc1_by_pudl(db.plants_steam_ferc1,
                                                 arg.pudl_plant_ids, arg.cols)))
    /\ UNCHANGED <<fn, arg, arg0, db>>

CallFrcByPudl ==
    /\ fn = "frc_by_pudl"
    /\ Len(ret) < MaxCalls
    /\ ret' = Append(ret, Ok(frc_by_pudl(db.fuel_receipts_costs_eia923,
                                         arg.pudl_plant_ids, arg.fuels, arg.cols)))
    /\ UNCHANGED <<fn, arg, arg0, db>>

CallGenFuelByPudl ==
    /\ fn = "gen_fuel_by_pudl"
    /\ Len(ret) < MaxCalls
    /\ ret' = Append(ret, Ok(gen_fuel_by_pudl(db.generation_fuel_eia923,
                                              arg.pudl_plant_ids, arg.fuels, arg.cols)))
    /\ UNCHANGED <<fn, arg, arg0, db>>

NextByPudl ==
    \/ CallFuelFerc1ByPudl
    \/ CallSteamFerc1ByPudl
    \/ CallFrcByPudl
    \/ CallGenFuelByPudl

SpecByPudl == InitByPudl /\ [][NextByPudl]_vars

ByPudlFns ==
    {"fuel_ferc1_by_pudl", "steam_ferc1_by_pudl", "frc_by_pudl", "gen_fuel_by_pudl"}

\* The rows of the source table the call reads, as stored
SourceRows ==
    CASE fn = "fuel_ferc1_by_pudl"  -> db.fuel_ferc1
      [] fn = "steam_ferc1_by_pudl" -> db.plants_steam_ferc1
      [] fn = "frc_by_pudl"         -> db.fuel_receipts_costs_eia923
      [] fn = "gen_fuel_by_pudl"    -> db.generation_fuel_eia923

\* The fuel, the report year and the group of a source row
RowFuel(r) == IF fn = "gen_fuel_by_pudl" THEN r["fuel_type_pudl"] ELSE r["fuel"]

RowYear(r) ==
    IF fn \in {"frc_by_pudl", "gen_fuel_by_pudl"} THEN r["report_date"].year
    ELSE r["report_year"]

FuelWanted(r) ==
    fn = "steam_ferc1_by_pudl" \/ arg0.fuels.all \/ RowFuel(r) \in arg0.fuels.list

GroupKeys ==
    IF arg0.fuels.all THEN {"plant_id_pudl", "report_year"}
    ELSE {"plant_id_pudl", "report_year", "fuel"}

RowGroup(r) ==
    IF arg0.fuels.all
    THEN [plant_id_pudl |-> r["plant_id_pudl"], report_year |-> RowYear(r)]
    ELSE [plant_id_pudl |-> r["plant_id_pudl"], report_year |-> RowYear(r),
          fuel |-> RowFuel(r)]

\* The sum of column c over the rows of s
ColSum(s, c) == SumSeq(MapSeq(s, LAMBDA r : r[c]))

\* The output agrees with the aggregation of the rows `kept`: its plants are
\* the plants of those rows and each column's total is their total.
AggregatesRows(out, kept) ==
    /\ {out[i]["plant_id_pudl"] : i \in 1..Len(out)}
         = {r["plant_id_pudl"] : r \in Range(kept)}
    /\ \A c \in arg0.cols : ColSum(out, c) = ColSum(kept, c)

\* C9 (as stated): each operation of the family keeps only the rows whose
\* plant ID is in the allow-list, and with an empty list aggregates over all
\* rows of the source table.
C9_EmptyListKeepsAllRows ==
    \A k \in 1..Len(ret) :
        fn \in ByPudlFns =>
            AggregatesRows(ret[k].val,
                SelectSeq(SourceRows,
                    LAMBDA r : /\ FuelWanted(r)
                               /\ \/ arg0.pudl_plant_ids = {}
                                  \/ r["plant_id_pudl"] \in arg0.pudl_plant_ids))

\* C9 (amended): each operation of the family keeps only the rows whose plant
\* ID is in the allow-list; with an empty list no row is kept and the result
\* has no rows.
C9_KeepsOnlyListedPlants ==
    \A k \in 1..Len(ret) :
        fn \in ByPudlFns =>
            /\ ret[k].ok
            /\ AggregatesRows(ret[k].val,
                   SelectSeq(SourceRows,
                       LAMBDA r : /\ FuelWanted(r)
                                  /\ r["plant_id_pudl"] \in arg0.pudl_plant_ids))
            /\ arg0.pudl_plant_ids = {} => ret[k].val = <<>>

\* A list naming plant 1 has been given for a table that holds wanted rows of
\* plants 1 and 2, and the result holds plant 1 alone.
C9_Witness ==
    /\ Len(ret) > 0
    /\ fn \in ByPudlFns
    /\ arg0.pudl_plant_ids = {1}
    /\ \E i, j \in 1..Len(SourceRows) :
          /\ SourceRows[i]["plant_id_pudl"] = 1 /\ FuelWanted(SourceRows[i])
          /\ SourceRows[j]["plant_id_pudl"] = 2 /\ FuelWanted(SourceRows[j])
    /\ Len(ret[1].val) > 0
    /\ \A i \in 1..Len(ret[1].val) : ret[1].val[i]["plant_id_pudl"] = 1

\* The retained rows of the call, and those of one group
Retained ==
    SelectSeq(SourceRows,
              LAMBDA r : r["plant_id_pudl"] \in arg0.pudl_plant_ids /\ FuelWanted(r))

InGroup(g) == SelectSeq(Retained, LAMBDA r : RowGroup(r) = g)

-----------------------------------------------------------------------------
(* fercplants *)

\* Names are sequences of characters, so that trimming and title-casing act
\* on them as str.strip() and str.title() act on strings.
IsLetter(c) == c \in {"a", "b", "A", "B"}

Upper(c) == CASE c = "a" -> "A" [] c = "b" -> "B" [] OTHER -> c

Lower(c) == CASE c = "A" -> "a" [] c = "B" -> "b" [] OTHER -> c

\* str.strip(): leading and trailing blanks removed
RECURSIVE strip(_)
strip(n) ==
    IF n = <<>> THEN n
    ELSE IF Head(n) = " " THEN strip(Tail(n))
    ELSE IF n[Len(n)] = " " THEN strip(SubSeq(n, 1, Len(n) - 1))
    ELSE n

\* str.title(): a letter that starts a word in upper case, the others in lower
title(n) ==
    [i \in 1..Len(n) |->
        IF i = 1 \/ ~IsLetter(n[i - 1]) THEN Upper(n[i]) ELSE Lower(n[i])]

\* analysis.py 980-983
okay_tbls == {"f1_steam", "f1_gnrt_plant", "f1_hydro", "f1_pumped_storage"}

\* analysis.py 999-1002
capacity_cols(tbl) ==
    IF tbl = "f1_gnrt_plant" THEN "capacity_rating" ELSE "tot_capacity"

\* analysis.py 933: constants.working_years['ferc1']
working_years_ferc1 == {2015, 2016}

\* analysis.py 1008-1020: the rows of SELECT DISTINCT respondent_id,
\* plant_name, respondent_name over the join of tbl with f1_respondent_id
plant_select(f1, tbl, years, min_capacity) ==
    {[respondent_id |-> r["respondent_id"], plant_name |-> r["plant_name"],
      respondent_name |-> q["respondent_name"]] :
     <<r, q>> \in
        {x \in Range(f1[tbl]) \X Range(f1["f1_respondent_id"]) :
            /\ x[1]["respondent_id"] = x[2]["respondent_id"]
            /\ x[1]["plant_name"] # <<>>
            /\ x[1][capacity_cols(tbl)] >= min_capacity
            /\ x[1]["report_year"] \in years}}

\* analysis.py 1022-1031: the names of the selected rows are normalized and
\* the rows tagged with their table
new_plants(f1, tbl, years, min_capacity) ==
    LET sel == SetToSeq(plant_select(f1, tbl, years, min_capacity))
    IN  [i \in 1..Len(sel) |->
            [respondent_id   |-> sel[i]["respondent_id"],
             respondent_name |-> title(strip(sel[i]["respondent_name"])),
             plant_name      |-> title(strip(sel[i]["plant_name"])),
             plant_table     |-> tbl]]

\* The (respondent_id, plant_name) index of a frame
PlantIndex(df) ==
    {<<df[i]["respondent_id"], df[i]["plant_name"]>> : i \in 1..Len(df)}

\* analysis.py 1054: index.difference.  A variant that takes no difference
\* comes first.
new_index_undiffed(all_index, old_index) == all_index

new_index(all_index, old_index) == all_index \ old_index

\* analysis.py 1055: .loc[new_index].reset_index() keeps every row of a
\* selected index value
loc(df, index) ==
    LET keys == SetToSeq(index)
    IN  Flatten([j \in 1..Len(keys) |->
            SelectSeq(df, LAMBDA r : <<r["respondent_id"], r["plant_name"]>> = keys[j])])

\* analysis.py 929-1059
fercplants(f1, pudl, plant_tables, years, new, min_capacity) ==
    IF ~new /\ \E yr \in years : yr \notin working_years_ferc1
    THEN Raise("AssertionError")
    ELSE IF \E i \in 1..Len(plant_tables) : plant_tables[i] \notin okay_tbls
    THEN Raise("AssertionError")
    ELSE LET ferc1_plants_all ==
                 Flatten([i \in 1..Len(plant_tables) |->
                     new_plants(f1, plant_tables[i], years, min_capacity)])
         IN  IF new
             THEN Ok(loc(ferc1_plants_all,
                         new_index(PlantIndex(ferc1_plants_all),
                                   PlantIndex(pudl["plants_ferc"]))))
             ELSE Ok(ferc1_plants_all)

\* The databases and arguments the calls are tried on.
MaxPlantRows == 2
MaxGnrtRows == 1

PlantNames == {<<"a">>, <<"A">>, <<"a", " ">>, <<"b">>}

F1Row(tbl, id, name, cap, yr) ==
    IF tbl = "f1_gnrt_plant"
    THEN [respondent_id |-> id, plant_name |-> name, capacity_rating |-> cap,
          report_year |-> yr]
    ELSE [respondent_id |-> id, plant_name |-> name, tot_capacity |-> cap,
          report_year |-> yr]

F1Rows(tbl) ==
    {F1Row(tbl, id, name, 5, 2016) : id \in {1, 2}, name \in PlantNames}
        \cup {F1Row(tbl, 1, <<"a">>, 4, 2016), F1Row(tbl, 1, <<"a">>, 5, 2015),
              F1Row(tbl, 1, <<>>, 5, 2016)}

RespondentTables ==
    {<<[respondent_id |-> 1, respondent_name |-> <<"a", "B", " ">>],
       [respondent_id |-> 2, respondent_name |-> <<"b">>]>>,
     <<[respondent_id |-> 1, respondent_name |-> <<"a", "B", " ">>]>>}

PlantsFercRows ==
    {[respondent_id |-> 1, plant_name |-> <<"A">>],
     [respondent_id |-> 1, plant_name |-> <<"a">>],
     [respondent_id |-> 2, plant_name |-> <<"A">>]}

PlantTableLists ==
    {<<"f1_steam">>, <<"f1_steam", "f1_gnrt_plant">>, <<"f1_boilers">>}

InitPlants ==
    /\ fn = "fercplants"
    /\ \E s \in UNION {[1..n -> F1Rows("f1_steam")] : n \in 0..MaxPlantRows},
          g \in UNION {[1..n -> F1Rows("f1_gnrt_plant")] : n \in 0..MaxGnrtRows},
          q \in RespondentTables,
          old \in SUBSET PlantsFercRows :
          db = [f1   |-> [f1_steam |-> s, f1_gnrt_plant |-> g, f1_respondent_id |-> q],
                pudl |-> [plants_ferc |-> SetToSeq(old)]]
    /\ \E l \in PlantTableLists, n \in BOOLEAN :
          arg = [plant_tables |-> l, years |-> {2016}, new |-> n, min_capacity |-> 5]
    /\ arg0 = arg
    /\ ret = <<>>

FercplantsResult ==
    fercplants(db.f1, db.pudl, arg.plant_tables, arg.years, arg.new, arg.min_capacity)

\* The call fails on an assertion, before any database is opened.
CallFercplantsRejected ==
    /\ fn = "fercplants"
    /\ Len(ret) < MaxCalls
    /\ ~FercplantsResult.ok
    /\ ret' = Append(ret, FercplantsResult)
    /\ UNCHANGED <<fn, arg, arg0, db>>

\* The call reads the databases and returns its frame.
CallFercplants ==
    /\ fn = "fercplants"
    /\ Len(ret) < MaxCalls
    /\ FercplantsResult.ok
    /\ ret' = Append(ret, FercplantsResult)
    /\ UNCHANGED <<fn, arg, arg0, db>>

NextPlants == CallFercplantsRejected \/ CallFercplants

SpecPlants == InitPlants /\ [][NextPlants]_vars

\* The rows of a listed source table that the query selects
Selected(tbl) ==
    {r \in Range(db.f1[tbl]) :
        /\ \E q \in Range(db.f1["f1_respondent_id"]) :
              q["respondent_id"] = r["respondent_id"]
        /\ r["plant_name"] # <<>>
        /\ r[capacity_cols(tbl)] >= arg0.min_capacity
        /\ r["report_year"] \in arg0.years}

\* The normalized (respondent_id, plant_name) pairs selected from the listed
\* source tables
SelectedPairs ==
    UNION {{<<r["respondent_id"], title(strip(r["plant_name"]))>> : r \in Selected(tbl)} :
           tbl \in Range(arg0.plant_tables)}

PlantsFercPairs == PlantIndex(db.pudl["plants_ferc"])

NewPlantsOnly ==
    \A k \in 1..Len(ret) :
        (fn = "fercplants" /\ arg0.new /\ Range(arg0.plant_tables) \subseteq okay_tbls) =>
            /\ ret[k].ok
            /\ PlantIndex(ret[k].val) \cap PlantsFercPairs = {}
            /\ SelectedPairs \ PlantsFercPairs \subseteq PlantIndex(ret[k].val)

\* C8: the output of fercplants(new=True) holds no row whose (respondent_id,
\* plant_name) pair is in plants_ferc and holds every normalized pair selected
\* from the source tables that is absent from plants_ferc; no call changes a
\* database table.
C8_OnlyNewPlantsAndNoWrite == [](NewPlantsOnly) /\ [][db' = db]_vars

\* fercplants(new=True) has returned from source tables that hold a selected
\* pair present in plants_ferc, left out, and one absent from it, returned.
C8_Witness ==
    /\ fn = "fercplants"
    /\ arg0.new
    /\ Len(ret) > 0
    /\ ret[1].ok
    /\ SelectedPairs \cap PlantsFercPairs # {}
    /\ SelectedPairs \ PlantsFercPairs # {}
    /\ PlantIndex(ret[1].val) = SelectedPairs \ PlantsFercPairs

\* The fuel categories the annual aggregations are documented for
KnownFuels == {"gas", "oil", "coal"}

\* C11: a call with an unknown table name (fercplants) or an unknown fuel
\* category (fuel_ferc1_by_pudl, frc_by_pudl, gen_fuel_by_pudl) fails with an
\* assertion error instead of returning a result.
C11_UnknownInputsRejected ==
    \A k \in 1..Len(ret) :
        /\ (/\ fn = "fercplants"
            /\ ~(Range(arg0.plant_tables) \subseteq okay_tbls))
              => (~ret[k].ok /\ ret[k].err = "AssertionError")
        /\ (/\ fn \in {"fuel_ferc1_by_pudl", "frc_by_pudl", "gen_fuel_by_pudl"}
            /\ ~arg0.fuels.all
            /\ ~(arg0.fuels.list \subseteq KnownFuels))
              => (~ret[k].ok /\ ret[k].err = "AssertionError")

-----------------------------------------------------------------------------
(* generator_proportion_eia923, values_by_generator_eia923 *)

\* Frames of this family are records [columns, index, rows]: index holds the
\* names of the index levels (none for the default integer index), and each
\* row holds its index levels along with its columns.

\* float product
FMul(a, b) ==
    IF IsNaN(a) \/ IsNaN(b) THEN NaN
    ELSE IF IsNum(a) /\ IsNum(b) THEN Frac(a.num * b.num, a.den * b.den)
    ELSE IF a.num = 0 \/ b.num = 0 THEN NaN
    ELSE Inf(IF (a.num > 0) = (b.num > 0) THEN 1 ELSE -1)

\* pd.Grouper(freq='A') labels a date with the last month of its year
YearEnd(d) == Date(d.year, 12)

\* analysis.py 601-632: the frame is indexed by its report_year column and
\* grouped by year; the result gets the default index back at line 631.
generator_proportion_eia923(g, id_col) ==
    IF ~({"report_year", id_col, "generator_id", "net_generation_mwh"}
            \subseteq g.columns)
    THEN Raise("KeyError")
    ELSE LET yr == [i \in 1..Len(g.rows) |->
                       (id_col :> g.rows[i][id_col])
                       @@ [report_year |-> YearEnd(g.rows[i]["report_year"]),
                           generator_id |-> g.rows[i]["generator_id"],
                           net_generation_mwh |-> g.rows[i]["net_generation_mwh"]]]
             per_generator ==
                 GroupBySum(yr, {"report_year", id_col, "generator_id"},
                            {"net_generation_mwh"})
             per_plant ==
                 GroupBySum(yr, {"report_year", id_col}, {"net_generation_mwh"})
             plant_of(r) ==
                 CHOOSE q \in Range(per_plant) :
                     /\ q["report_year"] = r["report_year"]
                     /\ q[id_col] = r[id_col]
         IN  Ok([columns |-> {"report_year", id_col, "generator_id",
                              "proportion_of_generation"},
                 index   |-> {},
                 rows    |-> [i \in 1..Len(per_generator) |->
                     (id_col :> per_generator[i][id_col])
                     @@ [report_year  |-> per_generator[i]["report_year"],
                         generator_id |-> per_generator[i]["generator_id"],
                         proportion_of_generation |->
                             FDiv(Frac(per_generator[i]["net_generation_mwh"], 1),
                                  Frac(plant_of(per_generator[i])["net_generation_mwh"], 1))]]])

\* analysis.py 693-703: the table summed by year and plant, indexed by
\* (report_date, plant_id)
table_eia923_df(table_eia923, column_name) ==
    LET yr == [i \in 1..Len(table_eia923.rows) |->
                  [report_date |-> YearEnd(table_eia923.rows[i]["report_date"]),
                   plant_id    |-> table_eia923.rows[i]["plant_id"],
                   plant       |-> table_eia923.rows[i][column_name]]]
    IN  [columns |-> {"plant"},
         index   |-> {"report_date", "plant_id"},
         rows    |-> GroupBySum(yr, {"report_date", "plant_id"}, {"plant"})]

\* analysis.py 707-708: merge(how="left", left_index=True, right_index=True)
\* joins the two indexes; a join with a MultiIndex of other names needs a
\* level name the two indexes share, and raises ValueError without one.
merge_left_on_index(left, right) ==
    LET shared == left.index \cap right.index
    IN  IF left.index # right.index /\ shared = {}
        THEN Raise("ValueError")
        ELSE Ok([columns |-> left.columns \cup right.columns,
                 index   |-> left.index \cup right.index,
                 rows    |->
                     Flatten([i \in 1..Len(left.rows) |->
                         LET m == SelectSeq(right.rows,
                                    LAMBDA q : Restrict(q, shared)
                                                 = Restrict(left.rows[i], shared))
                         IN  IF m = <<>>
                             THEN <<[plant |-> NaN] @@ left.rows[i]>>
                             ELSE [j \in 1..Len(m) |->
                                      [plant |-> Frac(m[j]["plant"], 1)]
                                      @@ left.rows[i]]])])

\* analysis.py 675-716
values_by_generator_eia923(table_eia923, column_name, g) ==
    IF ~({"report_date", "plant_id", column_name} \subseteq table_eia923.columns)
    THEN Raise("KeyError")
    ELSE LET g_gens_proportion == generator_proportion_eia923(g, "plant_id_eia")
         IN  IF ~g_gens_proportion.ok THEN g_gens_proportion
             ELSE LET g_generator ==
                          merge_left_on_index(g_gens_proportion.val,
                                              table_eia923_df(table_eia923, column_name))
                  IN  IF ~g_generator.ok THEN g_generator
                      ELSE Ok([columns |-> (g_generator.val.columns
                                              \ {"proportion_of_generation", "plant"})
                                              \cup {"generator"},
                               index   |-> g_generator.val.index,
                               rows    |->
                                   [i \in 1..Len(g_generator.val.rows) |->
                                       LET r == g_generator.val.rows[i]
                                       IN  [generator |->
                                               FMul(r["plant"],
                                                    r["proportion_of_generation"])]
                                           @@ Restrict(r, DOMAIN r
                                                \ {"proportion_of_generation", "plant"})]])

\* The frames the calls are tried on.
MaxGRows == 2
MaxTableRows == 2

GRows ==
    {[report_year |-> Date(y, 1), report_date |-> Date(y, 1), plant_id |-> p,
      plant_id_eia |-> p, generator_id |-> gen, net_generation_mwh |-> v] :
     y \in {2015, 2016}, p \in {1, 2}, gen \in {"G1", "G2"}, v \in {-1, 0, 1, 3}}

GColumns ==
    {{"report_year", "plant_id_eia", "generator_id", "net_generation_mwh"},
     {"report_year", "plant_id", "generator_id", "net_generation_mwh"},
     {"report_date", "plant_id", "generator_id", "net_generation_mwh"}}

GFrames ==
    {[columns |-> c, index |-> {},
      rows |-> [i \in 1..Len(t) |-> Restrict(t[i], c)]] :
     c \in GColumns, t \in UNION {[1..n -> GRows] : n \in 1..MaxGRows}}

TableRows ==
    {[report_date |-> Date(y, 3), plant_id |-> 1, fuel_cost |-> v] :
     y \in {2015, 2016}, v \in {10, 20}}

TableFrames ==
    {[columns |-> {"report_date", "plant_id", "fuel_cost"}, index |-> {}, rows |-> t] :
     t \in UNION {[1..n -> TableRows] : n \in 1..MaxTableRows}}

InitGen ==
    /\ fn \in {"generator_proportion_eia923", "values_by_generator_eia923"}
    /\ \E g \in GFrames, t \in TableFrames, idc \in {"plant_id_eia", "plant_id"} :
          arg = [table_eia923 |-> IF fn = "values_by_generator_eia923" THEN t
                                  ELSE [columns |-> {}, index |-> {}, rows |-> <<>>],
                 column_name |-> "fuel_cost", g |-> g,
                 id_col |-> IF fn = "values_by_generator_eia923"
                            THEN "plant_id_eia" ELSE idc]
    /\ arg0 = arg
    /\ db = <<>>
    /\ ret = <<>>

CallGeneratorProportion ==
    /\ fn = "generator_proportion_eia923"
    /\ Len(ret) < MaxCalls
    /\ ret' = Append(ret, generator_proportion_eia923(arg.g, arg.id_col))
    /\ UNCHANGED <<fn, arg, arg0, db>>

CallValuesByGenerator ==
    /\ fn = "values_by_generator_eia923"
    /\ Len(ret) < MaxCalls
    /\ ret' = Append(ret, values_by_generator_eia923(arg.table_eia923,
                                                     arg.column_name, arg.g))
    /\ UNCHANGED <<fn, arg, arg0, db>>

NextGen == CallGeneratorProportion \/ CallValuesByGenerator

SpecGen == InitGen /\ [][NextGen]_vars

\* The plant's column_name total and the net generation of one year in the
\* inputs of the call; p is a plant, y a year, gen a generator or "" for all
PlantTotal(p, y) ==
    SumSeq(MapSeq(SelectSeq(arg0.table_eia923.rows,
                            LAMBDA r : r["plant_id"] = p /\ r["report_date"].year = y),
                  LAMBDA r : r[arg0.column_name]))

NetGeneration(p, y, gen) ==
    SumSeq(MapSeq(SelectSeq(arg0.g.rows,
                            LAMBDA r : /\ r["plant_id_eia"] = p
                                       /\ r["report_year"].year = y
                                       /\ gen \in {"", r["generator_id"]}),
                  LAMBDA r : r["net_generation_mwh"]))

\* C12: values_by_generator_eia923 gives every generator of a (plant, year)
\* the plant's summed column_name total times the generator's share of the
\* plant's net generation of that year.
C12_AllocatesPlantTotalByShare ==
    \A k \in 1..Len(ret) :
        (/\ fn = "values_by_generator_eia923"
         /\ "report_year" \in arg0.g.columns) =>
            /\ ret[k].ok
            /\ \A r \in Range(arg0.g.rows) :
                  LET p == r["plant_id_eia"]
                      y == r["report_year"].year
                  IN  NetGeneration(p, y, "") # 0 =>
                        \E i \in 1..Len(ret[k].val.rows) :
                           LET o == ret[k].val.rows[i]
                           IN  /\ o["plant_id_eia"] = p
                               /\ o["report_year"].year = y
                               /\ o["generator_id"] = r["generator_id"]
                               /\ FEq(o["generator"],
                                      Frac(PlantTotal(p, y)
                                             * NetGeneration(p, y, r["generator_id"]),
                                           NetGeneration(p, y, "")))

-----------------------------------------------------------------------------
(* Repeated calls on the same argument objects *)

\* Each of the four functions is called twice on the objects of its first
\* call, as the first call left them.
InitRepeat == InitMerge \/ InitSum \/ InitCapfac \/ InitExpns

NextRepeat == NextMerge \/ NextSum \/ NextCapfac \/ NextExpns

SpecRepeat == InitRepeat /\ [][NextRepeat]_vars

RepeatFns ==
    {"merge_on_date_year", "yearly_sum_eia", "capacity_factor",
     "consolidate_ferc1_expns"}

\* C13: a second call of merge_on_date_year, yearly_sum_eia, capacity_factor
\* or consolidate_ferc1_expns on the argument objects of the first call
\* returns what the first call returned.
C13_SecondCallReturnsTheSame ==
    (fn \in RepeatFns /\ Len(ret) = 2) => ret[2] = ret[1]

\* merge_on_date_year has been called twice and returned rows; the first
\* call had written year_temp into both of the caller's frames.
C13_Witness ==
    /\ fn = "merge_on_date_year"
    /\ Len(ret) = 2
    /\ ret[1].ok
    /\ Len(ret[1].val.rows) > 0
    /\ "year_temp" \notin arg0.df_year.columns
    /\ "year_temp" \in arg.df_year.columns
    /\ "year_temp" \in arg.df_date.columns

-----------------------------------------------------------------------------
(* merge_on_date_year: the columns the two frames share *)

\* The columns of both input frames that are not merged on
SharedNotOn == (arg0.df_date.columns \cap arg0.df_year.columns) \ arg0.on

\* C14: the output of merge_on_date_year has one copy, under its own name, of
\* every column that df_date and df_year share outside 'on'; every output
\* row holds in it the value of a df_date row it was merged from, and the
\* columns that only df_year has are carried into the output.
C14_SharedColumnsComeFromDfDate ==
    \A k \in 1..Len(ret) :
        (fn = "merge_on_date_year" /\ ret[k].ok) =>
            LET out == ret[k].val
            IN  /\ SharedNotOn \subseteq out.columns
                /\ \A c \in SharedNotOn :
                      c \o "_x" \notin out.columns /\ c \o "_y" \notin out.columns
                /\ \A i \in 1..Len(out.rows) :
                      \E p \in MergePairs :
                          /\ Restrict(out.rows[i], arg0.df_date.columns)
                               = arg0.df_date.rows[p[1]]
                          /\ \A c \in arg0.df_year.columns
                                      \ (arg0.df_date.columns \cup {arg0.year_col}) :
                                out.rows[i][c] = arg0.df_year.rows[p[2]][c]
                /\ (arg0.df_year.columns \ (arg0.df_date.columns \cup {arg0.year_col}))
                      \subseteq out.columns

\* A merge on the year alone has returned a row from a df_date row and a
\* df_year row that disagree on plant_id, a column they share.
C14_Witness ==
    /\ fn = "merge_on_date_year"
    /\ arg0.on = {}
    /\ "plant_id" \in SharedNotOn
    /\ Len(ret) > 0
    /\ ret[1].ok
    /\ \E p \in MergePairs :
          /\ arg0.df_date.rows[p[1]]["plant_id"] # arg0.df_year.rows[p[2]]["plant_id"]
          /\ \E i \in 1..Len(ret[1].val.rows) :
                /\ ret[1].val.rows[i]["plant_id"] = arg0.df_date.rows[p[1]]["plant_id"]
                /\ ret[1].val.rows[i]["capacity_mw"]
                     = arg0.df_year.rows[p[2]]["capacity_mw"]

-----------------------------------------------------------------------------
(* ferc_expenses *)

\* analysis.py 167-171: SELECT plant_id_pudl FROM plants_eia
eia_pudl_plant_ids(plants_eia) ==
    {plants_eia[i]["plant_id_pudl"] : i \in 1..Len(plants_eia)}

\* analysis.py 402-403: the rows of the listed plants, every row for an
\* empty list
limit_to_plants(steam_df, pudl_plant_ids) ==
    IF Cardinality(pudl_plant_ids) > 0
    THEN SelectSeq(steam_df, LAMBDA r : r["plant_id_pudl"] \in pudl_plant_ids)
    ELSE steam_df

\* analysis.py 388-398: the table the expenses are lumped on is the whole
\* steam table.  A variant that limits it to the requested plants first
\* comes first.
lumping_table_limited(steam_df, pudl_plant_ids) ==
    limit_to_plants(steam_df, pudl_plant_ids)

lumping_table(steam_df, pudl_plant_ids) == steam_df

\* analysis.py 387-413
ferc_expenses(plants_steam_ferc1, plants_eia, pudl_plant_ids, require_eia, min_capfac, min_corr) ==
    LET steam_df    == lumping_table(plants_steam_ferc1, pudl_plant_ids)
        expns_corrs == ferc1_expns_corr(steam_df, min_capfac)
        lumped      == consolidate_ferc1_expns(steam_df, min_capfac, min_corr)
        limited     == limit_to_plants(lumped, pudl_plant_ids)
    IN  [expns_corrs |-> expns_corrs,
         steam_df |->
            IF require_eia
            THEN SelectSeq(limited,
                           LAMBDA r : r["plant_id_pudl"] \in eia_pudl_plant_ids(plants_eia))
            ELSE limited]

\* The databases and arguments the calls are tried on: the rows of a steam
\* table belong to plants 1, 2 and 1, in this order.
PlantOfRow == <<1, 2, 1>>

PlantsSteamTables ==
    {[i \in 1..Len(t) |-> ("plant_id_pudl" :> PlantOfRow[i]) @@ t[i]] :
     t \in SteamTables}

PlantsEiaTables == {<<[plant_id_pudl |-> 1], [plant_id_pudl |-> 3]>>}

InitFercExpenses ==
    /\ fn = "ferc_expenses"
    /\ \E t \in PlantsSteamTables, e \in PlantsEiaTables :
          db = [plants_steam_ferc1 |-> t, plants_eia |-> e]
    /\ \E ids \in {{}, {1}}, req \in BOOLEAN :
          arg = [pudl_plant_ids |-> ids, require_eia |-> req,
                 min_capfac |-> Frac(3, 5), min_corr |-> Frac(1, 2)]
    /\ arg0 = arg
    /\ ret = <<>>

CallFercExpenses ==
    /\ fn = "ferc_expenses"
    /\ Len(ret) < MaxCalls
    /\ ret' = Append(ret, Ok(ferc_expenses(db.plants_steam_ferc1, db.plants_eia,
                                           arg.pudl_plant_ids, arg.require_eia,
                                           arg.min_capfac, arg.min_corr)))
    /\ UNCHANGED <<fn, arg, arg0, db>>

NextFercExpenses == CallFercExpenses

SpecFercExpenses == InitFercExpenses /\ [][NextFercExpenses]_vars

\* The plants a call is to report on
WantedPlants ==
    {r["plant_id_pudl"] : r \in
        {q \in Range(db.plants_steam_ferc1) :
            /\ arg0.pudl_plant_ids = {} \/ q["plant_id_pudl"] \in arg0.pudl_plant_ids
            /\ arg0.require_eia =>
                  \E e \in Range(db.plants_eia) :
                      e["plant_id_pudl"] = q["plant_id_pudl"]}}

\* The correlations of the whole steam table
WholeTableCorr == ferc1_expns_corr(db.plants_steam_ferc1, arg0.min_capfac)

\* C15: ferc_expenses returns all plants for an empty pudl_plant_ids and the
\* listed plants otherwise, with require_eia only plants of plants_eia; the
\* returned correlations and the split of the expense categories between
\* the two totals are those of the whole steam table, whatever
\* pudl_plant_ids and require_eia are.
C15_PlantsLimitedAfterLumping ==
    \A k \in 1..Len(ret) :
        fn = "ferc_expenses" =>
            LET out == ret[k].val.steam_df
            IN  /\ {out[i]["plant_id_pudl"] : i \in 1..Len(out)} = WantedPlants
                /\ Len(out) = Cardinality({i \in 1..Len(db.plants_steam_ferc1) :
                        db.plants_steam_ferc1[i]["plant_id_pudl"] \in WantedPlants})
                /\ ret[k].val.expns_corrs = WholeTableCorr
                /\ \A i \in 1..Len(out) :
                      /\ out[i]["expns_total_nonfuel_production"]
                           = SumCols(out[i], nonfuel_px(ret[k].val.expns_corrs,
                                                        arg0.min_corr))
                      /\ out[i]["expns_total_nonproduction"]
                           = SumCols(out[i], npx(ret[k].val.expns_corrs,
                                                 arg0.min_corr))

\* A call for plant 1 with require_eia has returned rows of plant 1, left
\* plant 2 out, and the whole table puts some category in a total that the
\* rows of plant 1 alone would not put there.
C15_Witness ==
    /\ fn = "ferc_expenses"
    /\ Len(ret) > 0
    /\ arg0.pudl_plant_ids = {1}
    /\ arg0.require_eia
    /\ Len(db.plants_steam_ferc1) = 3
    /\ Len(ret[1].val.steam_df) = 2
    /\ nonfuel_px(WholeTableCorr, arg0.min_corr)
         # nonfuel_px(ferc1_expns_corr(limit_to_plants(db.plants_steam_ferc1, {1}),
                                       arg0.min_capfac), arg0.min_corr)

-----------------------------------------------------------------------------
(* simple_ferc1_plant_ids, simple_eia_plant_ids, simple_pudl_plant_ids,
   ferc_eia_shared_plant_ids *)

\* The values of a set in increasing order
RECURSIVE SortedSeq(_)
SortedSeq(S) ==
    IF S = {} THEN <<>>
    ELSE LET m == CHOOSE x \in S : \A y \in S : x <= y
         IN  <<m>> \o SortedSeq(S \ {m})

\* SELECT plant_id_pudl FROM <table>: the column, row by row
plant_id_pudl_column(table) == [i \in 1..Len(table) |-> table[i]["plant_id_pudl"]]

\* drop_duplicates('plant_id_pudl', keep=False): the values that occur more
\* than once lose all their rows.  A variant that keeps the first row of
\* each value comes first.
drop_duplicates_keep_first(ids) ==
    SelectSeq([i \in 1..Len(ids) |->
                  IF \E j \in 1..(i - 1) : ids[j] = ids[i] THEN 0 ELSE ids[i]],
              LAMBDA x : x # 0)

drop_duplicates_keep_false(ids) ==
    SelectSeq(ids, LAMBDA x : Cardinality({i \in 1..Len(ids) : ids[i] = x}) = 1)

\* np.intersect1d: the sorted values that both arrays hold, each once
intersect1d(a, b) == SortedSeq(Range(a) \cap Range(b))

\* analysis.py 122-128
simple_ferc1_plant_ids(plants_ferc) ==
    drop_duplicates_keep_false(plant_id_pudl_column(plants_ferc))

\* analysis.py 131-137
simple_eia_plant_ids(plants_eia) ==
    drop_duplicates_keep_false(plant_id_pudl_column(plants_eia))

\* analysis.py 140-146
simple_pudl_plant_ids(plants_ferc, plants_eia) ==
    intersect1d(simple_ferc1_plant_ids(plants_ferc), simple_eia_plant_ids(plants_eia))

\* analysis.py 149-157
ferc_eia_shared_plant_ids(plants_ferc, plants_eia) ==
    intersect1d(plant_id_pudl_column(plants_ferc), plant_id_pudl_column(plants_eia))

\* The mapping tables the calls are tried on.
MaxMapRows == 3
MaxPlantId == 3

MapTables ==
    UNION {[1..n -> {[plant_id_pudl |-> p] : p \in 1..MaxPlantId}] : n \in 0..MaxMapRows}

InitIds ==
    /\ fn = "plant_ids"
    /\ \E f \in MapTables, e \in MapTables : db = [plants_ferc |-> f, plants_eia |-> e]
    /\ arg = <<>>
    /\ arg0 = arg
    /\ ret = <<>>

CallSimplePudlPlantIds ==
    /\ fn = "plant_ids"
    /\ Len(ret) < MaxCalls
    /\ ret' = Append(ret, Ok([fn  |-> "simple_pudl_plant_ids",
                              ids |-> simple_pudl_plant_ids(db.plants_ferc,
                                                            db.plants_eia)]))
    /\ UNCHANGED <<fn, arg, arg0, db>>

CallFercEiaSharedPlantIds ==
    /\ fn = "plant_ids"
    /\ Len(ret) < MaxCalls
    /\ ret' = Append(ret, Ok([fn  |-> "ferc_eia_shared_plant_ids",
                              ids |-> ferc_eia_shared_plant_ids(db.plants_ferc,
                                                                db.plants_eia)]))
    /\ UNCHANGED <<fn, arg, arg0, db>>

NextIds == CallSimplePudlPlantIds \/ CallFercEiaSharedPlantIds

SpecIds == InitIds /\ [][NextIds]_vars

\* The number of rows of a mapping table that hold the plant p
RowsOf(table, p) == Cardinality({i \in 1..Len(table) : table[i]["plant_id_pudl"] = p})

\* C16: simple_pudl_plant_ids returns exactly the plant IDs held by exactly
\* one row of plants_ferc and exactly one row of plants_eia;
\* ferc_eia_shared_plant_ids returns exactly the IDs held by at least one row
\* of each table; neither result repeats an ID, both may be empty, and every
\* simple ID is a shared ID.
C16_SimpleAndSharedPlantIds ==
    fn = "plant_ids" =>
        /\ \A k \in 1..Len(ret) :
              LET ids == ret[k].val.ids
              IN  /\ ret[k].ok
                  /\ Len(ids) = Cardinality(Range(ids))
                  /\ ret[k].val.fn = "simple_pudl_plant_ids" =>
                        Range(ids) = {p \in 1..MaxPlantId :
                                         /\ RowsOf(db.plants_ferc, p) = 1
                                         /\ RowsOf(db.plants_eia, p) = 1}
                  /\ ret[k].val.fn = "ferc_eia_shared_plant_ids" =>
                        Range(ids) = {p \in 1..MaxPlantId :
                                         /\ RowsOf(db.plants_ferc, p) >= 1
                                         /\ RowsOf(db.plants_eia, p) >= 1}
        /\ \A j, k \in 1..Len(ret) :
              (/\ ret[j].val.fn = "simple_pudl_plant_ids"
               /\ ret[k].val.fn = "ferc_eia_shared_plant_ids")
                 => Range(ret[j].val.ids) \subseteq Range(ret[k].val.ids)

\* Both functions have been called on tables in which one plant has a single
\* row in each table and another has two rows in plants_ferc: the first is
\* simple and shared, the second shared only.
C16_Witness ==
    /\ fn = "plant_ids"
    /\ Len(ret) = 2
    /\ ret[1].val.fn = "simple_pudl_plant_ids"
    /\ ret[2].val.fn = "ferc_eia_shared_plant_ids"
    /\ \E p, q \in 1..MaxPlantId :
          /\ RowsOf(db.plants_ferc, p) = 1 /\ RowsOf(db.plants_eia, p) = 1
          /\ RowsOf(db.plants_ferc, q) = 2 /\ RowsOf(db.plants_eia, q) = 1
          /\ ret[1].val.ids = <<p>>
          /\ Range(ret[2].val.ids) = {p, q}

-----------------------------------------------------------------------------
(* consolidate_ferc1_expns: undefined correlations and the frame *)

\* The rows of the caller's table that pass the capacity-factor filter
FilteredSteam == CapfacFilter(arg0.steam_df, arg0.min_capfac)

\* The non-fuel categories that are zero in every filtered row
AllZeroCategories ==
    {e \in Range(NonFuelCols) : \A r \in Range(FilteredSteam) : r[e] = 0}

\* The correlations of the caller's table
InputCorr == ferc1_expns_corr(arg0.steam_df, arg0.min_capfac)

C18_TwoTotalsAddedToEveryRow ==
    \A k \in 1..Len(ret) :
        fn = "consolidate_ferc1_expns" =>
            \A corr \in {InputCorr} :
                LET out == ret[k].val
                IN  /\ arg = arg0
                    /\ Len(out) = Len(arg0.steam_df)
                    /\ \A i \in 1..Len(out) :
                          /\ DOMAIN out[i] = DOMAIN arg0.steam_df[i]
                                \cup {"expns_total_nonfuel_production",
                                      "expns_total_nonproduction"}
                          /\ Restrict(out[i], DOMAIN arg0.steam_df[i]) = arg0.steam_df[i]
                          /\ out[i]["expns_total_nonfuel_production"]
                               = SumCols(out[i], SelectSeq(cols_to_correlate,
                                     LAMBDA c : /\ c # "expns_fuel"
                                                /\ CorrGe(corr[c], arg0.min_corr)))
                          /\ out[i]["expns_total_nonproduction"]
                               = SumCols(out[i], SelectSeq(cols_to_correlate,
                                     LAMBDA c : /\ c # "expns_fuel"
                                                /\ ~corr[c].nan
                                                /\ ~CorrGe(corr[c], arg0.min_corr)))

\* With min_corr = 1 a category correlates exactly 1 with generation and is
\* in the production total, another correlates less and is in the other
\* total, and a row below the capacity-factor threshold is in the output.
C18_Witness ==
    /\ fn = "consolidate_ferc1_expns"
    /\ Len(ret) > 0
    /\ arg0.min_corr = Frac(1, 1)
    /\ Len(FilteredSteam) < Len(arg0.steam_df)
    /\ \E c, d \in Range(NonFuelCols) :
          /\ ~InputCorr[c].nan /\ InputCorr[c].cov > 0
          /\ InputCorr[c].cov * InputCorr[c].cov = InputCorr[c].vv
          /\ ~InputCorr[d].nan /\ ~CorrGe(InputCorr[d], arg0.min_corr)
          /\ \E i \in 1..Len(ret[1].val) :
                /\ ret[1].val[i]["expns_total_nonfuel_production"] >= ret[1].val[i][c]
                /\ ret[1].val[i]["expns_total_nonfuel_production"] > 0
                /\ ret[1].val[i]["expns_total_nonproduction"] > 0

-----------------------------------------------------------------------------
(* ferc1_expns_corr *)

InitCorr ==
    /\ fn = "ferc1_expns_corr"
    /\ \E t \in SteamTables, cf \in MinCapfacs :
          arg = [steam_df |-> t, min_capfac |-> cf]
    /\ arg0 = arg
    /\ db = <<>>
    /\ ret = <<>>

CallExpnsCorr ==
    /\ fn = "ferc1_expns_corr"
    /\ Len(ret) < MaxCalls
    /\ ret' = Append(ret, Ok(ferc1_expns_corr(arg.steam_df, arg.min_capfac)))
    /\ UNCHANGED <<fn, arg, arg0, db>>

NextCorr == CallExpnsCorr

SpecCorr == InitCorr /\ [][NextCorr]_vars

\* The rows whose capacity factor, net_generation_mwh / (total_capacity_mw *
\* 8760), is strictly greater than min_capfac (capacities are positive)
AboveMinCapfac ==
    SelectSeq(arg0.steam_df,
              LAMBDA r : r["net_generation_mwh"] * arg0.min_capfac.den
                           > arg0.min_capfac.num * r["total_capacity_mw"] * HoursPerYear)

\* C19: the correlations of ferc1_expns_corr are taken over exactly the input
\* rows whose capacity factor net_generation_mwh / (total_capacity_mw * 8760)
\* is strictly greater than min_capfac and, for each category, over those of
\* these rows where the category is non-zero.
C19_CorrelatesRowsAboveMinCapfac ==
    \A k \in 1..Len(ret) :
        fn = "ferc1_expns_corr" =>
            \A e \in DOMAIN ret[k].val :
                LET nz == SelectSeq(AboveMinCapfac, LAMBDA r : r[e] # 0)
                IN  ret[k].val[e]
                      = corrcoef(MapSeq(nz, LAMBDA r : r["net_generation_mwh"]),
                                 MapSeq(nz, LAMBDA r : r[e]))

-----------------------------------------------------------------------------
(* primary_fuel_ferc1, primary_fuel_frc_eia923, primary_fuel_gf_eia923 *)

PrimaryFns ==
    {"primary_fuel_ferc1", "primary_fuel_frc_eia923", "primary_fuel_gf_eia923"}

\* The primary fuel of the (plant, year) g by the heat content the input
\* describes: the fuel of the largest summed heat content if its share of the
\* group's total is at least fuel_thresh (the first in column order among
\* equals), unset otherwise
SharedPrimaryFuel(g) ==
    LET fuels == {InputFuel(r) : r \in Range(arg0.df)}
        total == SumSeq(MapSeq(SetToSeq(fuels), LAMBDA f : GroupHeat(g, f)))
        kept  == {f \in fuels :
                     /\ total > 0
                     /\ GroupHeat(g, f) * arg0.fuel_thresh.den
                          >= arg0.fuel_thresh.num * total}
        best  == {f \in kept : \A f2 \in kept : GroupHeat(g, f) >= GroupHeat(g, f2)}
    IN  IF best = {} THEN None
        ELSE FuelOrder[CHOOSE i \in 1..Len(FuelOrder) :
                          /\ FuelOrder[i] \in best
                          /\ \A j \in 1..(i - 1) : FuelOrder[j] \notin best]

\* C20: with default arguments, primary_fuel_ferc1, primary_fuel_frc_eia923
\* and primary_fuel_gf_eia923 each complete without error and return, for
\* every (plant, year), the primary fuel that the summed heat content of the
\* input determines, so that inputs describing the same heat content get the
\* same answer from the three.
C20_ThreeImplementationsAgree ==
    \A k \in 1..Len(ret) :
        (fn \in PrimaryFns /\ arg0.id_col \in {"", "plant_id_eia"}) =>
            /\ ret[k].ok
            /\ \A i \in 1..Len(ret[k].val) :
                  ret[k].val[i]["primary_fuel"]
                    = SharedPrimaryFuel(Restrict(ret[k].val[i], GroupCols))

-----------------------------------------------------------------------------
(* generator_proportion_eia923: the share of each generator *)

\* The column of the input that holds the period and the one that holds the
\* plant: the names the code reads when the frame has them, else the names
\* the docstring gives.
PeriodCol == IF "report_year" \in arg0.g.columns THEN "report_year" ELSE "report_date"

PlantCol == IF arg0.id_col \in arg0.g.columns THEN arg0.id_col ELSE "plant_id"

\* The (year, plant, generator) groups present in the input
GeneratorKeys ==
    {<<r[PeriodCol].year, r[PlantCol], r["generator_id"]>> : r \in Range(arg0.g.rows)}

\* The summed net generation of generator gen of plant p in year y, and of the
\* whole plant for gen = ""
SummedNet(p, y, gen) ==
    SumSeq(MapSeq(SelectSeq(arg0.g.rows,
                            LAMBDA r : /\ r[PlantCol] = p
                                       /\ r[PeriodCol].year = y
                                       /\ gen \in {"", r["generator_id"]}),
                  LAMBDA r : r["net_generation_mwh"]))

\* The rows of a result for generator gen of plant p in year y (gen = "" for
\* every generator of the plant)
ProportionRows(res, p, y, gen) ==
    SelectSeq(res.rows, LAMBDA o : /\ o[arg0.id_col] = p
                                   /\ o["report_year"].year = y
                                   /\ gen \in {"", o["generator_id"]})

\* C21: generator_proportion_eia923 returns one row per (year, plant,
\* generator) of the input, holding the generator's summed net generation
\* divided by the plant's of that year; the proportions of a plant-year with
\* a nonzero total sum to 1, and for a total of zero the call does not fail
\* and each generator row is there with a not-a-number proportion.
C21_OneRowPerGeneratorWithItsShare ==
    \A k \in 1..Len(ret) :
        fn = "generator_proportion_eia923" =>
            /\ ret[k].ok
            /\ Len(ret[k].val.rows) = Cardinality(GeneratorKeys)
            /\ \A key \in GeneratorKeys :
                  LET y     == key[1]
                      p     == key[2]
                      rows  == ProportionRows(ret[k].val, p, y, key[3])
                      total == SummedNet(p, y, "")
                  IN  /\ Len(rows) = 1
                      /\ IF total = 0
                         THEN IsNaN(rows[1]["proportion_of_generation"])
                         ELSE /\ FEq(rows[1]["proportion_of_generation"],
                                     FDiv(Frac(SummedNet(p, y, key[3]), 1),
                                          Frac(total, 1)))
                              /\ FEq(FSum(MapSeq(ProportionRows(ret[k].val, p, y, ""),
                                          LAMBDA o : o["proportion_of_generation"])),
                                     Frac(1, 1))

-----------------------------------------------------------------------------
(* The caller's frames after a call *)

\* C22: merge_on_date_year and yearly_sum_eia leave the caller's frames as
\* they were: after any number of calls df_date and df_year (resp. df) hold
\* the columns and values they held before the first call, with no helper
\* column such as year_temp or report_year added.
C22_InputsLeftUnchanged ==
    fn \in {"merge_on_date_year", "yearly_sum_eia"} => arg = arg0

-----------------------------------------------------------------------------
(* primary_fuel_frc_eia923 and its id_col *)

\* C23: primary_fuel_frc_eia923 honours id_col: for 'plant_id_pudl' as for
\* the default 'plant_id_eia' it completes without error and returns exactly
\* one row per (id_col value, year) of the input, whose primary fuel is the
\* one that the heat content summed by that identifier column determines.
C23_HonoursIdCol ==
    \A k \in 1..Len(ret) :
        fn = "primary_fuel_frc_eia923" =>
            /\ ret[k].ok
            /\ \A g \in {InputGroup(r) : r \in Range(arg0.df)} :
                  Cardinality({i \in 1..Len(ret[k].val) :
                                 Restrict(ret[k].val[i], GroupCols) = g}) = 1
            /\ \A i \in 1..Len(ret[k].val) :
                  /\ DOMAIN ret[k].val[i] = GroupCols \cup {"primary_fuel"}
                  /\ \E r \in Range(arg0.df) :
                        InputGroup(r) = Restrict(ret[k].val[i], GroupCols)
                  /\ ret[k].val[i]["primary_fuel"]
                       = SharedPrimaryFuel(Restrict(ret[k].val[i], GroupCols))

-----------------------------------------------------------------------------
(* fercplants: the names and tags of the rows returned *)

\* A name with no blank at either end and in title case
IsNormalized(n) ==
    /\ n # <<>> => (Head(n) # " " /\ n[Len(n)] # " ")
    /\ title(n) = n

\* Row o of the output is a selected row of the source table it is tagged
\* with, under its normalized names
FromItsTable(o) ==
    /\ o["plant_table"] \in Range(arg0.plant_tables)
    /\ \E r \in Selected(o["plant_table"]), q \in Range(db.f1["f1_respondent_id"]) :
          /\ q["respondent_id"] = r["respondent_id"]
          /\ o["respondent_id"] = r["respondent_id"]
          /\ o["plant_name"] = title(strip(r["plant_name"]))
          /\ o["respondent_name"] = title(strip(q["respondent_name"]))

NormalizedAndTagged(out) ==
    \A i \in 1..Len(out) :
        /\ IsNormalized(out[i]["plant_name"])
        /\ IsNormalized(out[i]["respondent_name"])
        /\ FromItsTable(out[i])

NoTwoRowsOfOnePlant(out) ==
    \A i, j \in 1..Len(out) :
        (/\ out[i]["respondent_id"] = out[j]["respondent_id"]
         /\ out[i]["plant_name"] = out[j]["plant_name"]
         /\ out[i]["plant_table"] = out[j]["plant_table"]) => i = j

\* C24: in the output of fercplants every plant_name and respondent_name is
\* trimmed and title-cased and every row is tagged with the source table it
\* was selected from; with new=False no two rows have the same
\* (respondent_id, plant_name, plant_table), also when the source table holds
\* names that differ only in case or surrounding blanks.
C24_NormalizedTaggedAndDistinct ==
    \A k \in 1..Len(ret) :
        (fn = "fercplants" /\ ret[k].ok) =>
            /\ NormalizedAndTagged(ret[k].val)
            /\ ~arg0.new => NoTwoRowsOfOnePlant(ret[k].val)

=============================================================================
